---- MODULE Spec2Model ----
(***************************************************************************)
(* The IoC container of PySpring: the ApplicationContext (class            *)
(* registries, singleton / bean / properties containers, dependency        *)
(* injection) and the bootstrap sequence PySpringApplication.run() that    *)
(* drives it.                                                              *)
(***************************************************************************)
EXTENDS Integers, Sequences, FiniteSets, TLC

VARIABLES
    component_cls_container,                 \* dict name -> component class
    controller_cls_container,                \* dict name -> controller class
    singleton_component_instance_container,  \* dict name -> component instance
    bean_collection_cls_container,           \* dict name -> bean collection class
    singleton_bean_instance_container,       \* dict bean name -> object
    properties_cls_container,                \* dict key -> properties class
    singleton_properties_instance_container, \* dict key -> properties instance
    optional_loaded_properties,              \* _PropertiesLoader's class-level dict
    class_attrs,                             \* attributes set on classes by setattr
    config_scope,                            \* Config.scope of every Config class
    properties_file,                         \* the properties document read by the loader
    next_id,                                 \* identity of the next object constructed
    trace,                                   \* constructions, assignments and hook calls, in order
    err,                                     \* the exception a bootstrap call raised
    propagated,                              \* the exception that leaves run()
    last_lookup,                             \* the last lookup call and what it returned
    pc,                                      \* position of run() in the bootstrap sequence
    checked_func,                            \* the callable handed to the type-hint check
    hint_check,                              \* what the type-hint check did with it
    py_spring_model,                         \* the class-level handles of PySpringModel
    last_access,                             \* the last PySpringModel call and its outcome
    loader_file,                             \* the document file a loader is created for
    loaded_dict,                             \* what the loader's document read returned
    application,                             \* the engine, model classes and tables of the application
    transaction                              \* a call of a Transactional wrapper, as far as it has come

vars == <<component_cls_container, controller_cls_container,
          singleton_component_instance_container, bean_collection_cls_container,
          singleton_bean_instance_container, properties_cls_container,
          singleton_properties_instance_container, optional_loaded_properties,
          class_attrs, config_scope, properties_file, next_id, trace, err,
          propagated, last_lookup, pc, checked_func, hint_check, py_spring_model,
          last_access,
          loader_file, loaded_dict,
          application, transaction>>

----------------------------------------------------------------------------
(* Bounds of the model *)

\* registry entries (over the four class containers) a run may hold
MaxReg == 3
\* lookup calls made while the server runs
MaxLookups == 2
\* top-level keys of a properties document
MaxDocKeys == 2

----------------------------------------------------------------------------
(* Python dicts: insertion-ordered; assigning an existing key keeps its place *)

EmptyDict == <<>>

DictKeys(d) == [i \in 1..Len(d) |-> d[i].k]

DictValues(d) == [i \in 1..Len(d) |-> d[i].v]

DictHas(d, key) == \E i \in 1..Len(d) : d[i].k = key

DictIndex(d, key) == CHOOSE i \in 1..Len(d) : d[i].k = key

DictAt(d, key) == d[DictIndex(d, key)].v

DictSet(d, key, val) ==
    IF DictHas(d, key)
    THEN [d EXCEPT ![DictIndex(d, key)] = [k |-> key, v |-> val]]
    ELSE Append(d, [k |-> key, v |-> val])

KeySet(d) == {d[i].k : i \in 1..Len(d)}

SeqToSet(s) == {s[i] : i \in 1..Len(s)}

----------------------------------------------------------------------------
(* Objects and exceptions *)

\* Python's None
None == [cls |-> "NoneType", id |-> 0]

\* an object: its runtime class and its identity
Obj(c, n) == [cls |-> c, id |-> n]

NoError == [exc |-> "none", tag |-> "", args |-> <<>>]

Raise(exc, tag, args) == [exc |-> exc, tag |-> tag, args |-> args]

----------------------------------------------------------------------------
(* The classes handed to the container: the host application's entity       *)
(* classes, each with what the container reads from it                      *)

ComponentClasses == {"A", "B", "B2", "P"}

ControllerClasses == {"Ctl", "Ctl2"}

BeanCollectionClasses == {"BC1", "BC2", "BC3", "BC4"}

PropertiesClasses == {"Db", "Db2", "Cache"}

PlainClasses == {"Widget", "Gadget"}

Classes == ComponentClasses \cup ControllerClasses \cup BeanCollectionClasses
             \cup PropertiesClasses \cup PlainClasses

\* issubclass(c, base) for the four entity base types
IsSubclass(c, base) ==
    CASE base = "Component"      -> c \in ComponentClasses
      [] base = "RestController" -> c \in ControllerClasses
      [] base = "BeanCollection" -> c \in BeanCollectionClasses
      [] base = "Properties"     -> c \in PropertiesClasses

\* cls.__name__ : B2 is a second class called B, defined in another module
ClassName(c) ==
    CASE c = "B2"  -> "B"
      [] c = "Db2" -> "DbSettings"
      [] OTHER     -> c

\* __key__ of a Properties class: Db and Db2 both declare the key db
PropertiesKey(c) ==
    CASE c = "Db"    -> "db"
      [] c = "Db2"   -> "db"
      [] c = "Cache" -> "cache"
      [] OTHER       -> ""

Primitive == "primitive"
NotAClass == "notclass"
AClass == "class"

Ann(name, kind, c) == [name |-> name, kind |-> kind, cls |-> c]

\* cls.__annotations__, in declaration order
Annotations(c) ==
    CASE c = "A"   -> <<Ann("b", AClass, "B"), Ann("count", Primitive, "int")>>
      [] c = "B"   -> <<Ann("a", AClass, "A"), Ann("tags", NotAClass, "list[str]")>>
      [] c = "B2"  -> <<Ann("w", AClass, "Widget"), Ann("p", AClass, "P")>>
      [] c = "Ctl" -> <<Ann("db", AClass, "Db"), Ann("w", AClass, "Widget")>>
      [] c = "Ctl2" -> <<Ann("a", AClass, "A")>>
      [] c = "BC3" -> <<Ann("p", AClass, "P")>>
      [] OTHER     -> <<>>

Factory(func, params, ret, makes) ==
    [func |-> func, params |-> params, ret |-> ret, makes |-> makes]

\* the create* methods of a bean collection in dir() order: the annotated
\* parameter types, the annotated return type and the class the body builds
Factories(c) ==
    CASE c = "BC1" -> <<Factory("create_widget", <<"Db">>, "Widget", "Widget")>>
      [] c = "BC2" -> <<Factory("create_b", <<>>, "B", "B"),
                        Factory("create_widget", <<>>, "Widget", "Widget")>>
      [] c = "BC3" -> <<Factory("create_gadget", <<>>, "Widget", "Gadget")>>
      [] c = "BC4" -> <<Factory("create_gadget", <<>>, "Gadget", "Gadget"),
                        Factory("create_gadget_again", <<>>, "Gadget", "Gadget")>>
      [] OTHER     -> <<>>

Scopes == {"Singleton", "Prototype"}

\* the classes that define a Config of their own; the others share Component.Config
OwnConfig == {"P"}

ConfigHolders == {"Component"} \cup OwnConfig

ConfigOf(c) == IF c \in OwnConfig THEN c ELSE "Component"

InitialScope(h) == IF h = "P" THEN "Prototype" ELSE "Singleton"

\* the lifecycle hooks a class overrides with a body that raises
RaisingHooks(c) ==
    CASE c = "B2" -> {"destroy"}
      [] c = "P"  -> {"initialize"}
      [] OTHER    -> {}

----------------------------------------------------------------------------
(* The state as one record, so that a handler is a function of the state *)

Ctx == [component_cls_container |-> component_cls_container,
        controller_cls_container |-> controller_cls_container,
        singleton_component_instance_container |-> singleton_component_instance_container,
        bean_collection_cls_container |-> bean_collection_cls_container,
        singleton_bean_instance_container |-> singleton_bean_instance_container,
        properties_cls_container |-> properties_cls_container,
        singleton_properties_instance_container |-> singleton_properties_instance_container,
        optional_loaded_properties |-> optional_loaded_properties,
        class_attrs |-> class_attrs,
        config_scope |-> config_scope,
        properties_file |-> properties_file,
        next_id |-> next_id,
        trace |-> trace,
        err |-> err,
        propagated |-> propagated,
        last_lookup |-> last_lookup,
        pc |-> pc]

Commit(S) ==
    /\ component_cls_container' = S.component_cls_container
    /\ controller_cls_container' = S.controller_cls_container
    /\ singleton_component_instance_container' = S.singleton_component_instance_container
    /\ bean_collection_cls_container' = S.bean_collection_cls_container
    /\ singleton_bean_instance_container' = S.singleton_bean_instance_container
    /\ properties_cls_container' = S.properties_cls_container
    /\ singleton_properties_instance_container' = S.singleton_properties_instance_container
    /\ optional_loaded_properties' = S.optional_loaded_properties
    /\ class_attrs' = S.class_attrs
    /\ config_scope' = S.config_scope
    /\ properties_file' = S.properties_file
    /\ next_id' = S.next_id
    /\ trace' = S.trace
    /\ err' = S.err
    /\ propagated' = S.propagated
    /\ last_lookup' = S.last_lookup
    /\ pc' = S.pc
    /\ UNCHANGED <<checked_func, hint_check, py_spring_model, last_access,
          loader_file, loaded_dict,
          application, transaction>>

Event(ev, obj, what, on) == [ev |-> ev, obj |-> obj, what |-> what, on |-> on]

Log(S, e) == [S EXCEPT !.trace = Append(@, e)]

\* cls(): a new object of class c
Construct(S, c) ==
    Log([S EXCEPT !.next_id = @ + 1], Event("construct", Obj(c, S.next_id), "", ""))

\* the object the last Construct built
Newest(S) == S.trace[Len(S.trace)].obj

Failed(S) == S.err # NoError

----------------------------------------------------------------------------
(* Component *)

get_name(c) == ClassName(c)

\* faulty variant: the scope is not read from the class's Config
get_scope_AlwaysSingleton(S, c) == "Singleton"

get_scope(S, c) == S.config_scope[ConfigOf(c)]

set_scope(S, c, scope) == [S EXCEPT !.config_scope[ConfigOf(c)] = scope]

get_key(c) == PropertiesKey(c)

InitHooks == <<"pre_initialize", "initialize", "post_initialize">>

DestroyHooks == <<"pre_destroy", "destroy", "post_destroy">>

\* the hooks of a cycle called one after the other on o; the first that raises
\* ends the cycle, and its exception leaves the caller
CallHooks(S, o, hooks) ==
    LET raising == {i \in 1..Len(hooks) : hooks[i] \in RaisingHooks(o.cls)}
        last == IF raising = {} THEN Len(hooks)
                ELSE CHOOSE i \in raising : \A j \in raising : i <= j
        called == [S EXCEPT !.trace =
                      @ \o [i \in 1..last |-> Event("hook", o, hooks[i], "")]]
    IN  IF raising = {} THEN called
        ELSE [called EXCEPT !.err = Raise("RuntimeError", "HOOK", <<o.cls, hooks[last]>>)]

\* faulty variant: initialize is called before pre_initialize
finish_initialization_cycle_Misordered(S, o) ==
    CallHooks(S, o, <<"initialize", "pre_initialize", "post_initialize">>)

finish_initialization_cycle(S, o) == CallHooks(S, o, InitHooks)

finish_destruction_cycle(S, o) == CallHooks(S, o, DestroyHooks)

----------------------------------------------------------------------------
(* PySpringApplication: lifecycle of the singleton components *)

get_singleton_component_instances(S) ==
    DictValues(S.singleton_component_instance_container)

RECURSIVE LifeCycleFrom(_, _, _, _)
LifeCycleFrom(S, components, i, life_cycle) ==
    IF i > Len(components) \/ Failed(S) THEN S
    ELSE LifeCycleFrom(
            IF life_cycle = "Init"
            THEN finish_initialization_cycle(S, components[i])
            ELSE finish_destruction_cycle(S, components[i]),
            components, i + 1, life_cycle)

handle_singleton_components_life_cycle(S, life_cycle) ==
    LifeCycleFrom(S, get_singleton_component_instances(S), 1, life_cycle)

\* the finally block of run(): the destruction cycle, then run() is left with
\* the exception in flight, or with the one the destruction cycle raised
RunFinally(S) ==
    LET T == handle_singleton_components_life_cycle([S EXCEPT !.err = NoError],
                                                    "Destruction")
    IN  [T EXCEPT !.propagated = IF Failed(T) THEN T.err ELSE S.err,
                  !.err = S.err,
                  !.pc = "done"]

\* raise e: the handlers below stop at the first exception
Throw(S, e) == [S EXCEPT !.err = e]

\* faulty variant: run() goes on to its next call after an exception
Step_GoesOn(S, next) == [S EXCEPT !.pc = next]

\* one call made by run(): an exception unwinds to the finally block, otherwise
\* run() goes on to its next call
Step(S, next) == IF Failed(S) THEN RunFinally(S) ELSE [S EXCEPT !.pc = next]

----------------------------------------------------------------------------
(* ApplicationContext: registration *)

\* faulty variant: a name the registry already holds is refused
register_component_RejectsKnown(S, c) ==
    IF ~IsSubclass(c, "Component")
    THEN Throw(S, Raise("TypeError", "COMPONENT REGISTRATION ERROR", <<>>))
    ELSE IF DictHas(S.component_cls_container, get_name(c))
    THEN Throw(S, Raise("ValueError", "ALREADY REGISTERED", <<get_name(c)>>))
    ELSE [S EXCEPT !.component_cls_container = DictSet(@, get_name(c), c)]

register_component(S, c) ==
    IF ~IsSubclass(c, "Component")
    THEN Throw(S, Raise("TypeError", "COMPONENT REGISTRATION ERROR", <<>>))
    ELSE [S EXCEPT !.component_cls_container = DictSet(@, get_name(c), c)]

\* faulty variant: the class is registered without the issubclass test
register_controller_AcceptsAny(S, c) ==
    [S EXCEPT !.controller_cls_container = DictSet(@, get_name(c), c)]

register_controller(S, c) ==
    IF ~IsSubclass(c, "RestController")
    THEN Throw(S, Raise("TypeError", "CONTROLLER REGISTRATION ERROR", <<>>))
    ELSE [S EXCEPT !.controller_cls_container = DictSet(@, get_name(c), c)]

register_bean_collection(S, c) ==
    IF ~IsSubclass(c, "BeanCollection")
    THEN Throw(S, Raise("TypeError", "BEAN COLLECTION REGISTRATION ERROR", <<>>))
    ELSE [S EXCEPT !.bean_collection_cls_container = DictSet(@, get_name(c), c)]

register_properties(S, c) ==
    IF ~IsSubclass(c, "Properties")
    THEN Throw(S, Raise("TypeError", "PROPERTIES REGISTRATION ERROR", <<>>))
    ELSE IF get_key(c) = ""
    THEN Throw(S, Raise("ValueError", "KEY NOT SET", <<ClassName(c)>>))
    ELSE [S EXCEPT !.properties_cls_container = DictSet(@, get_key(c), c)]

RegistryKinds == {"Component", "RestController", "BeanCollection", "Properties"}

Register(S, kind, c) ==
    CASE kind = "Component"      -> register_component(S, c)
      [] kind = "RestController" -> register_controller(S, c)
      [] kind = "BeanCollection" -> register_bean_collection(S, c)
      [] kind = "Properties"     -> register_properties(S, c)

Registry(S, kind) ==
    CASE kind = "Component"      -> S.component_cls_container
      [] kind = "RestController" -> S.controller_cls_container
      [] kind = "BeanCollection" -> S.bean_collection_cls_container
      [] kind = "Properties"     -> S.properties_cls_container

\* the name a class is registered under in a registry
RegisteredName(kind, c) == IF kind = "Properties" THEN get_key(c) ELSE get_name(c)

RegistrySize(S) ==
    Len(S.component_cls_container) + Len(S.controller_cls_container)
      + Len(S.bean_collection_cls_container) + Len(S.properties_cls_container)

----------------------------------------------------------------------------
(* _PropertiesLoader *)

SupportedExtensions == {"json", "yaml", "yml"}

DocEntry(key, valid) == [key |-> key, valid |-> valid]

\* a value returned beside the state
Ret(S, v) == [S |-> S, out |-> v]

load_classes_as_map(properties_classes) ==
    [i \in 1..Len(properties_classes) |->
        [k |-> get_key(properties_classes[i]), v |-> properties_classes[i]]]

\* faulty variant: the parser loses the first top-level key of the document
load_properties_dict_DropsFirstKey(S) ==
    IF S.properties_file.ext \in SupportedExtensions
    THEN Ret(S, SubSeq(S.properties_file.entries, 2, Len(S.properties_file.entries)))
    ELSE Ret(Throw(S, Raise("ValueError", "Unsupported file extension",
                            <<S.properties_file.ext>>)), <<>>)

\* the parsed document, or the exception for an extension without a parser
load_properties_dict(S) ==
    IF S.properties_file.ext \in SupportedExtensions
    THEN Ret(S, S.properties_file.entries)
    ELSE Ret(Throw(S, Raise("ValueError", "Unsupported file extension",
                            <<S.properties_file.ext>>)), <<>>)

\* extension_loader_lookup, in the order of the dict literal
extension_loader_lookup ==
    <<[extension |-> "json", loader_func |-> "json.loads"],
      [extension |-> "yaml", loader_func |-> "yaml.load"],
      [extension |-> "yml", loader_func |-> "yaml.load"]>>

\* no document read has been made yet
NotLoaded == [by |-> "", loader_func |-> "", file_content |-> <<>>, exc |-> NoError]

\* file.read() on a handle whose position is pos: the rest of the file, the
\* position moving to its end
read(file, pos) == IF pos = 0 THEN file.entries ELSE <<>>

\* loader_func(file_content): the parser that ran and the text it was given
Parsed(by, loader_func, file_content) ==
    [by |-> by, loader_func |-> loader_func, file_content |-> file_content,
     exc |-> NoError]

Unsupported(by, file) ==
    [by |-> by, loader_func |-> "", file_content |-> <<>>,
     exc |-> Raise("ValueError", "Unsupported file extension", <<file.ext>>)]

\* _PropertiesLoader._load_properties_dict: the file is read when the extension matches
RECURSIVE PropertiesDictFrom(_, _, _)
PropertiesDictFrom(file, pos, i) ==
    IF i > Len(extension_loader_lookup) THEN Unsupported("_PropertiesLoader", file)
    ELSE IF file.ext # extension_loader_lookup[i].extension
    THEN PropertiesDictFrom(file, pos, i + 1)
    ELSE Parsed("_PropertiesLoader", extension_loader_lookup[i].loader_func,
                read(file, pos))

\* _ConfigurationLoader._load_config_dict: the file is read in every pass of the loop
RECURSIVE ConfigDictFrom(_, _, _)
ConfigDictFrom(file, pos, i) ==
    IF i > Len(extension_loader_lookup) THEN Unsupported("_ConfigurationLoader", file)
    ELSE LET file_content == read(file, pos)
         IN  IF file.ext = extension_loader_lookup[i].extension
             THEN Parsed("_ConfigurationLoader",
                         extension_loader_lookup[i].loader_func, file_content)
             ELSE ConfigDictFrom(file, pos + 1, i + 1)

RECURSIVE LoaderFrom(_, _, _, _, _)
LoaderFrom(S, class_map, entries, i, properties) ==
    IF i > Len(entries) THEN Ret(S, properties)
    ELSE IF ~DictHas(class_map, entries[i].key)
    THEN Ret(Throw(S, Raise("ValueError", "INVALID PROPERTIES KEY", <<entries[i].key>>)),
             properties)
    ELSE IF ~entries[i].valid
    THEN Ret(Throw(S, Raise("ValidationError", "model_validate", <<entries[i].key>>)),
             properties)
    ELSE LET T == Construct(S, DictAt(class_map, entries[i].key))
         IN  LoaderFrom(T, class_map, entries, i + 1,
                        DictSet(properties, entries[i].key, Newest(T)))

\* _PropertiesLoader(path, classes).load_properties()
loader_load_properties(S, properties_classes) ==
    LET class_map == load_classes_as_map(properties_classes)
        doc == load_properties_dict(S)
    IN  IF Failed(doc.S) THEN Ret(doc.S, EmptyDict)
        ELSE LoaderFrom(doc.S, class_map, doc.out, 1, EmptyDict)

----------------------------------------------------------------------------
(* ApplicationContext: properties *)

RECURSIVE StorePropertiesFrom(_, _, _)
StorePropertiesFrom(S, properties_instance_dict, i) ==
    IF i > Len(S.properties_cls_container) THEN S
    ELSE LET properties_key == S.properties_cls_container[i].k
             properties_cls == S.properties_cls_container[i].v
         IN  IF ~DictHas(properties_instance_dict, properties_key)
             THEN Throw(S, Raise("TypeError", "PROPERTIES INITIALIZATION ERROR",
                                 <<properties_key, get_name(properties_cls),
                                   get_key(properties_cls)>>))
             ELSE StorePropertiesFrom(
                     [S EXCEPT !.singleton_properties_instance_container =
                         DictSet(@, properties_key,
                                 DictAt(properties_instance_dict, properties_key))],
                     properties_instance_dict, i + 1)

\* faulty variant: what the loader built is stored although the loader raised
load_properties_StoresOnFailure(S) ==
    LET loaded == loader_load_properties(S, DictValues(S.properties_cls_container))
    IN  IF Failed(loaded.S)
        THEN [loaded.S EXCEPT !.singleton_properties_instance_container = loaded.out]
        ELSE LET T == StorePropertiesFrom(loaded.S, loaded.out, 1)
             IN  IF Failed(T) THEN T
                 ELSE [T EXCEPT !.optional_loaded_properties =
                                    T.singleton_properties_instance_container]

\* faulty variant: a registered schema without a document key is not looked for
load_properties_NoMissingCheck(S) ==
    LET loaded == loader_load_properties(S, DictValues(S.properties_cls_container))
    IN  IF Failed(loaded.S) THEN loaded.S
        ELSE [loaded.S EXCEPT !.singleton_properties_instance_container = loaded.out,
                              !.optional_loaded_properties = loaded.out]

\* faulty variant: the loader is run once for every registered schema
load_properties_OncePerSchema(S) ==
    LET again == IF Len(S.properties_cls_container) > 1
                 THEN loader_load_properties(S, DictValues(S.properties_cls_container)).S
                 ELSE S
        loaded == loader_load_properties(again, DictValues(S.properties_cls_container))
    IN  IF Failed(loaded.S) THEN loaded.S
        ELSE LET T == StorePropertiesFrom(loaded.S, loaded.out, 1)
             IN  IF Failed(T) THEN T
                 ELSE [T EXCEPT !.optional_loaded_properties =
                                    T.singleton_properties_instance_container]

load_properties(S) ==
    LET loaded == loader_load_properties(S, DictValues(S.properties_cls_container))
    IN  IF Failed(loaded.S) THEN loaded.S
        ELSE LET T == StorePropertiesFrom(loaded.S, loaded.out, 1)
             IN  IF Failed(T) THEN T
                 ELSE [T EXCEPT !.optional_loaded_properties =
                                    T.singleton_properties_instance_container]

----------------------------------------------------------------------------
(* ApplicationContext: lookups *)

\* faulty variant: a new instance is built whatever the scope
get_component_AlwaysFresh(S, component_cls) ==
    IF ~IsSubclass(component_cls, "Component") THEN Ret(S, None)
    ELSE IF ~DictHas(S.component_cls_container, get_name(component_cls)) THEN Ret(S, None)
    ELSE LET T == Construct(S, component_cls) IN Ret(T, Newest(T))

\* faulty variant: the instance built for a Prototype class is kept in the singleton map
get_component_KeepsPrototype(S, component_cls) ==
    IF ~IsSubclass(component_cls, "Component") THEN Ret(S, None)
    ELSE IF ~DictHas(S.component_cls_container, get_name(component_cls)) THEN Ret(S, None)
    ELSE IF get_scope(S, component_cls) = "Singleton"
    THEN IF DictHas(S.singleton_component_instance_container, get_name(component_cls))
         THEN Ret(S, DictAt(S.singleton_component_instance_container,
                            get_name(component_cls)))
         ELSE Ret(S, None)
    ELSE LET T == Construct(S, component_cls)
         IN  Ret([T EXCEPT !.singleton_component_instance_container =
                              DictSet(@, get_name(component_cls), Newest(T))],
                 Newest(T))

get_component(S, component_cls) ==
    IF ~IsSubclass(component_cls, "Component") THEN Ret(S, None)
    ELSE IF ~DictHas(S.component_cls_container, get_name(component_cls)) THEN Ret(S, None)
    ELSE IF get_scope(S, component_cls) = "Singleton"
    THEN IF DictHas(S.singleton_component_instance_container, get_name(component_cls))
         THEN Ret(S, DictAt(S.singleton_component_instance_container,
                            get_name(component_cls)))
         ELSE Ret(S, None)
    ELSE LET T == Construct(S, component_cls) IN Ret(T, Newest(T))

get_bean(S, object_cls) ==
    IF ~DictHas(S.singleton_bean_instance_container, ClassName(object_cls))
    THEN Ret(S, None)
    ELSE Ret(S, DictAt(S.singleton_bean_instance_container, ClassName(object_cls)))

get_properties(S, properties_cls) ==
    IF ~DictHas(S.properties_cls_container, get_key(properties_cls)) THEN Ret(S, None)
    ELSE IF DictHas(S.singleton_properties_instance_container, get_key(properties_cls))
    THEN Ret(S, DictAt(S.singleton_properties_instance_container, get_key(properties_cls)))
    ELSE Ret(S, None)

\* a list a getter returns: a new list object holding the items
ListOf(items) == [cls |-> "list", id |-> 0, items |-> items]

RECURSIVE ControllerInstancesFrom(_, _, _)
ControllerInstancesFrom(S, i, instances) ==
    IF i > Len(S.controller_cls_container) THEN Ret(S, ListOf(instances))
    ELSE LET T == Construct(S, S.controller_cls_container[i].v)
         IN  ControllerInstancesFrom(T, i + 1, Append(instances, Newest(T)))

\* [_cls() for _cls in self.controller_cls_container.values()]
get_controller_instances(S) == ControllerInstancesFrom(S, 1, <<>>)

get_singleton_bean_instances(S) ==
    DictValues(S.singleton_bean_instance_container)

----------------------------------------------------------------------------
(* ApplicationContext: dependency injection *)

\* a class attribute no setattr has assigned yet
Unset == [cls |-> "unset", id |-> 0]

\* setattr(entity, attr_name, value): the attribute is set on the class
SetAttr(S, entity, i, value) ==
    Log([S EXCEPT !.class_attrs[entity][i] = value],
        Event("setattr", value, Annotations(entity)[i].name, entity))

\* faulty variant: a Properties field without a loaded instance is assigned None
InjectField_AssignsNone(S, entity, i) ==
    LET annotated_entity_cls == Annotations(entity)[i].cls
    IN  IF Annotations(entity)[i].kind # AClass THEN S
        ELSE IF IsSubclass(annotated_entity_cls, "Properties")
        THEN LET optional_properties == get_properties(S, annotated_entity_cls)
             IN  SetAttr(optional_properties.S, entity, i, optional_properties.out)
        ELSE LET from_component == get_component(S, annotated_entity_cls)
                 from_bean == get_bean(from_component.S, annotated_entity_cls)
             IN  IF from_component.out # None
                 THEN SetAttr(from_component.S, entity, i, from_component.out)
                 ELSE IF from_bean.out # None
                 THEN SetAttr(from_bean.S, entity, i, from_bean.out)
                 ELSE Throw(from_bean.S,
                            Raise("ValueError", "DEPENDENCY INJECTION FAILED",
                                  <<Annotations(entity)[i].name,
                                    ClassName(annotated_entity_cls)>>))

\* faulty variant: a dependency that resolves to nothing is passed over in silence
InjectField_SkipsUnresolved(S, entity, i) ==
    LET annotated_entity_cls == Annotations(entity)[i].cls
    IN  IF Annotations(entity)[i].kind # AClass THEN S
        ELSE IF IsSubclass(annotated_entity_cls, "Properties")
        THEN LET optional_properties == get_properties(S, annotated_entity_cls)
             IN  IF optional_properties.out = None
                 THEN Throw(S, Raise("TypeError", "PROPERTIES INJECTION ERROR",
                                     <<get_name(annotated_entity_cls),
                                       get_key(annotated_entity_cls)>>))
                 ELSE SetAttr(optional_properties.S, entity, i, optional_properties.out)
        ELSE LET from_component == get_component(S, annotated_entity_cls)
                 from_bean == get_bean(from_component.S, annotated_entity_cls)
             IN  IF from_component.out # None
                 THEN SetAttr(from_component.S, entity, i, from_component.out)
                 ELSE IF from_bean.out # None
                 THEN SetAttr(from_bean.S, entity, i, from_bean.out)
                 ELSE from_bean.S

\* faulty variant: the bean map is asked before the component container
InjectField_BeanFirst(S, entity, i) ==
    LET attr_name == Annotations(entity)[i].name
        annotated_entity_cls == Annotations(entity)[i].cls
    IN  IF Annotations(entity)[i].kind = Primitive THEN S
        ELSE IF Annotations(entity)[i].kind = NotAClass THEN S
        ELSE IF IsSubclass(annotated_entity_cls, "Properties")
        THEN LET optional_properties == get_properties(S, annotated_entity_cls)
             IN  IF optional_properties.out = None
                 THEN Throw(S, Raise("TypeError", "PROPERTIES INJECTION ERROR",
                                     <<get_name(annotated_entity_cls),
                                       get_key(annotated_entity_cls)>>))
                 ELSE SetAttr(optional_properties.S, entity, i, optional_properties.out)
        ELSE LET from_bean == get_bean(S, annotated_entity_cls)
                 from_component == get_component(from_bean.S, annotated_entity_cls)
             IN  IF from_bean.out # None
                 THEN SetAttr(from_bean.S, entity, i, from_bean.out)
                 ELSE IF from_component.out # None
                 THEN SetAttr(from_component.S, entity, i, from_component.out)
                 ELSE Throw(from_component.S,
                            Raise("ValueError", "DEPENDENCY INJECTION FAILED",
                                  <<attr_name, ClassName(annotated_entity_cls)>>))

\* the body of the loop over entity.__annotations__ for its i-th annotation
InjectField(S, entity, i) ==
    LET attr_name == Annotations(entity)[i].name
        annotated_entity_cls == Annotations(entity)[i].cls
    IN  IF Annotations(entity)[i].kind = Primitive THEN S
        ELSE IF Annotations(entity)[i].kind = NotAClass THEN S
        ELSE IF IsSubclass(annotated_entity_cls, "Properties")
        THEN LET optional_properties == get_properties(S, annotated_entity_cls)
             IN  IF optional_properties.out = None
                 THEN Throw(S, Raise("TypeError", "PROPERTIES INJECTION ERROR",
                                     <<get_name(annotated_entity_cls),
                                       get_key(annotated_entity_cls)>>))
                 ELSE SetAttr(optional_properties.S, entity, i, optional_properties.out)
        ELSE LET from_component == get_component(S, annotated_entity_cls)
                 from_bean == get_bean(from_component.S, annotated_entity_cls)
             IN  IF from_component.out # None
                 THEN SetAttr(from_component.S, entity, i, from_component.out)
                 ELSE IF from_bean.out # None
                 THEN SetAttr(from_bean.S, entity, i, from_bean.out)
                 ELSE Throw(from_bean.S,
                            Raise("ValueError", "DEPENDENCY INJECTION FAILED",
                                  <<attr_name, ClassName(annotated_entity_cls)>>))

RECURSIVE InjectFrom(_, _, _)
InjectFrom(S, entity, i) ==
    IF i > Len(Annotations(entity)) THEN S
    ELSE LET T == InjectField(S, entity, i)
         IN  IF Failed(T) THEN T ELSE InjectFrom(T, entity, i + 1)

inject_entity_dependencies(S, entity) ==
    InjectFrom(Log(S, Event("inject", None, "", entity)), entity, 1)

inject_dependencies_for_bean_collection(S, bean_collection_cls) ==
    inject_entity_dependencies(S, bean_collection_cls)

RECURSIVE InjectAllFrom(_, _, _)
InjectAllFrom(S, classes, i) ==
    IF i > Len(classes) THEN S
    ELSE LET T == inject_entity_dependencies(S, classes[i])
         IN  IF Failed(T) THEN T ELSE InjectAllFrom(T, classes, i + 1)

\* faulty variant: the controller classes are left out
inject_dependencies_for_app_entities_ComponentsOnly(S) ==
    InjectAllFrom(S, DictValues(S.component_cls_container), 1)

\* faulty variant: the walk over the two containers is made twice
inject_dependencies_for_app_entities_Twice(S) ==
    LET once == InjectAllFrom(S, DictValues(S.component_cls_container)
                                   \o DictValues(S.controller_cls_container), 1)
    IN  IF Failed(once) THEN once
        ELSE InjectAllFrom(once, DictValues(S.component_cls_container)
                                     \o DictValues(S.controller_cls_container), 1)

\* the component classes first, then the controller classes
inject_dependencies_for_app_entities(S) ==
    InjectAllFrom(S, DictValues(S.component_cls_container)
                       \o DictValues(S.controller_cls_container), 1)

----------------------------------------------------------------------------
(* BeanCollection *)

BeanView(bean_name, bean) == [bean_name |-> bean_name, bean |-> bean]

\* faulty variant: the produced object's class is not compared with the bean name
is_valid_bean_AlwaysTrue(view) == TRUE

is_valid_bean(view) == view.bean_name = ClassName(view.bean.cls)

\* the argument construct_bean_creation_func binds to a parameter of type
\* param_cls: the loaded properties instance whose class has that name, else None
BoundArgument(S, param_cls) ==
    LET loaded == DictValues(S.optional_loaded_properties)
        hits == {i \in 1..Len(loaded) : get_name(loaded[i].cls) = ClassName(param_cls)}
    IN  IF hits = {} THEN None
        ELSE loaded[CHOOSE i \in hits : \A j \in hits : j <= i]

RECURSIVE BindFrom(_, _, _)
BindFrom(S, factory, i) ==
    IF i > Len(factory.params) THEN S
    ELSE BindFrom(Log(S, Event("bind", BoundArgument(S, factory.params[i]),
                               factory.params[i], factory.func)),
                  factory, i + 1)

\* one create* method: bind its arguments, call it, record the bean it built
CreateBean(S, collection_cls, factory) ==
    LET bound == BindFrom(S, factory, 1)
        built == Construct(bound, factory.makes)
    IN  Ret(Log(built, Event("factory", Newest(built), factory.func, collection_cls)),
            BeanView(ClassName(factory.ret), Newest(built)))

RECURSIVE ScanFrom(_, _, _, _)
ScanFrom(S, collection_cls, i, bean_views) ==
    IF i > Len(Factories(collection_cls)) THEN Ret(S, bean_views)
    ELSE LET made == CreateBean(S, collection_cls, Factories(collection_cls)[i])
         IN  ScanFrom(made.S, collection_cls, i + 1, Append(bean_views, made.out))

scan_beans(S, collection_cls) == ScanFrom(S, collection_cls, 1, <<>>)

----------------------------------------------------------------------------
(* ApplicationContext: init_ioc_container *)

\* faulty variant: each singleton is injected as soon as it has been constructed
RECURSIVE InitComponentsFrom_InjectsAsBuilt(_, _)
InitComponentsFrom_InjectsAsBuilt(S, i) ==
    IF i > Len(S.component_cls_container) THEN S
    ELSE LET component_cls_name == S.component_cls_container[i].k
             component_cls == S.component_cls_container[i].v
         IN  IF get_scope(S, component_cls) # "Singleton"
             THEN InitComponentsFrom_InjectsAsBuilt(S, i + 1)
             ELSE LET T == Construct(S, component_cls)
                      U == inject_entity_dependencies(
                              [T EXCEPT !.singleton_component_instance_container =
                                           DictSet(@, component_cls_name, Newest(T))],
                              component_cls)
                  IN  IF Failed(U) THEN U
                      ELSE InitComponentsFrom_InjectsAsBuilt(U, i + 1)

RECURSIVE InitComponentsFrom(_, _)
InitComponentsFrom(S, i) ==
    IF i > Len(S.component_cls_container) THEN S
    ELSE LET component_cls_name == S.component_cls_container[i].k
             component_cls == S.component_cls_container[i].v
         IN  IF get_scope(S, component_cls) # "Singleton"
             THEN InitComponentsFrom(S, i + 1)
             ELSE LET T == Construct(S, component_cls)
                  IN  InitComponentsFrom(
                         [T EXCEPT !.singleton_component_instance_container =
                                      DictSet(@, component_cls_name, Newest(T))],
                         i + 1)

\* faulty variant: a bean whose name the map already holds replaces it
InsertBean_Overwrites(S, collection_cls, view) ==
    IF ~is_valid_bean(view)
    THEN Throw(S, Raise("InvalidBeanError", "INVALID BEAN",
                        <<view.bean_name, ClassName(view.bean.cls)>>))
    ELSE [S EXCEPT !.singleton_bean_instance_container =
                      DictSet(@, view.bean_name, view.bean)]

\* the body of the loop over bean_views for one view
InsertBean(S, collection_cls, view) ==
    IF DictHas(S.singleton_bean_instance_container, view.bean_name)
    THEN Throw(S, Raise("BeanConflictError", "BEAN CONFLICTS",
                        <<view.bean_name, get_name(collection_cls)>>))
    ELSE IF ~is_valid_bean(view)
    THEN Throw(S, Raise("InvalidBeanError", "INVALID BEAN",
                        <<view.bean_name, ClassName(view.bean.cls)>>))
    ELSE [S EXCEPT !.singleton_bean_instance_container =
                      DictSet(@, view.bean_name, view.bean)]

RECURSIVE InsertBeansFrom(_, _, _, _)
InsertBeansFrom(S, collection_cls, bean_views, i) ==
    IF i > Len(bean_views) \/ Failed(S) THEN S
    ELSE InsertBeansFrom(InsertBean(S, collection_cls, bean_views[i]),
                         collection_cls, bean_views, i + 1)

\* faulty variant: a collection's factories are scanned before its fields are injected
RECURSIVE InitBeansFrom_ScansFirst(_, _)
InitBeansFrom_ScansFirst(S, i) ==
    IF i > Len(S.bean_collection_cls_container) THEN S
    ELSE LET bean_collection_cls == S.bean_collection_cls_container[i].v
             collection == Construct(S, bean_collection_cls)
             scanned == scan_beans(collection, bean_collection_cls)
             injected == inject_dependencies_for_bean_collection(scanned.S,
                                                                 bean_collection_cls)
             inserted == InsertBeansFrom(injected, bean_collection_cls, scanned.out, 1)
         IN  IF Failed(injected) THEN injected
             ELSE IF Failed(inserted) THEN inserted
             ELSE InitBeansFrom_ScansFirst(inserted, i + 1)

RECURSIVE InitBeansFrom(_, _)
InitBeansFrom(S, i) ==
    IF i > Len(S.bean_collection_cls_container) THEN S
    ELSE LET bean_collection_cls == S.bean_collection_cls_container[i].v
             collection == Construct(S, bean_collection_cls)
             injected == inject_dependencies_for_bean_collection(collection,
                                                                 bean_collection_cls)
             scanned == scan_beans(injected, bean_collection_cls)
             inserted == InsertBeansFrom(scanned.S, bean_collection_cls, scanned.out, 1)
         IN  IF Failed(injected) THEN injected
             ELSE IF Failed(inserted) THEN inserted
             ELSE InitBeansFrom(inserted, i + 1)

\* faulty variant: the components are injected before the beans are built
init_ioc_container_InjectsFirst(S) ==
    InitBeansFrom(inject_dependencies_for_app_entities(InitComponentsFrom(S, 1)), 1)

init_ioc_container(S) == InitBeansFrom(InitComponentsFrom(S, 1), 1)

----------------------------------------------------------------------------
(* PySpringApplication *)

RECURSIVE MountFrom(_, _)
MountFrom(S, i) ==
    IF i > Len(S.controller_cls_container) THEN S
    ELSE LET T == Construct(S, S.controller_cls_container[i].v)
         IN  MountFrom(Log(T, Event("include_router", Newest(T), "", "")), i + 1)

\* __init_controllers: one instance per controller class, handed to FastAPI
init_controllers(S) == MountFrom(S, 1)

----------------------------------------------------------------------------
(* The properties documents the loader may find *)

DocKeys == {"db", "cache"}

FileExtensions == SupportedExtensions \cup {"txt"}

DocEntries == {DocEntry(k, v) : k \in DocKeys, v \in BOOLEAN}

Documents ==
    {[ext |-> e, entries |-> es] :
        e \in FileExtensions,
        es \in {q \in UNION {[1..n -> DocEntries] : n \in 0..MaxDocKeys} :
                   \A i, j \in 1..Len(q) : i # j => q[i].key # q[j].key}}

NoFile == [ext |-> "", entries |-> <<>>]

\* what the preceding lookup returned, when there is none for the same class
NoPrevious == [cls |-> "nothing", id |-> 0]

\* the classes the host application asks get_component for: every component
\* class and one class that is no Component
LookupClasses == ComponentClasses \cup {"Widget"}

NoLookup == [n |-> 0, op |-> "", cls |-> "", out |-> None, prev |-> NoPrevious]

\* the record of a lookup: its result, and the result of the call just before it
\* when that was the same lookup of the same class
Lookup(S, op, c, out) ==
    [n |-> S.last_lookup.n + 1, op |-> op, cls |-> c, out |-> out,
     prev |-> IF S.last_lookup.op = op /\ S.last_lookup.cls = c
              THEN S.last_lookup.out ELSE NoPrevious]

----------------------------------------------------------------------------
(* core/utils.py: the type-hint check on a callable *)

\* positional parameters of a checked callable, self not counted
MaxParams == 3

\* A callable, by what the check reads of it: whether it is a method whose first
\* parameter is a bare self, which of its positional parameters are annotated,
\* its keyword-only parameter if it has one, and whether its return is annotated.
KeywordOnly == {"absent", "bare", "annotated"}

ParameterLists == UNION {[1..n -> BOOLEAN] : n \in 0..MaxParams}

Callables == [self : BOOLEAN, params : ParameterLists, kwonly : KeywordOnly,
              ret : BOOLEAN]

NoCallable == [self |-> FALSE, params |-> <<>>, kwonly |-> "absent", ret |-> FALSE]

Unchecked == [exc |-> "unchecked", tag |-> "", args |-> <<>>]

RETURN_ID == <<"return", 0>>

\* func.__code__.co_argcount: the positional parameters, self among them; a
\* keyword-only parameter is not counted
co_argcount(f) == (IF f.self THEN 1 ELSE 0) + Len(f.params)

\* func.__annotations__: the names that carry an annotation
annotations(f) ==
    {<<"arg", i>> : i \in {j \in 1..Len(f.params) : f.params[j]}}
        \cup (IF f.kwonly = "annotated" THEN {<<"kwonly", 1>>} ELSE {})
        \cup (IF f.ret THEN {RETURN_ID} ELSE {})

\* typing.get_type_hints(func): the same names, their annotations resolved
get_type_hints(f) == annotations(f)

\* checking_type_hints_for_callable(func): NoError when it returns
checking_type_hints_for_callable(f) ==
    LET argument_count == co_argcount(f) + 1
        full_type_hints == annotations(f) \cup get_type_hints(f)
    IN  IF RETURN_ID \notin full_type_hints
        THEN Raise("TypeHintsNotProvidedError", "RETURN", <<>>)
        ELSE IF argument_count = 0
        THEN NoError
        ELSE IF Cardinality(full_type_hints) = 0
        THEN Raise("TypeHintsNotProvidedError", "NONE", <<argument_count>>)
        ELSE IF Cardinality(full_type_hints) # argument_count
        THEN Raise("TypeHintsNotProvidedError", "COUNT",
                   <<Cardinality(full_type_hints), argument_count>>)
        ELSE NoError

----------------------------------------------------------------------------
(* persistence/core/py_spring_model.py: the class-level handles *)

\* the handles before any setter ran: _engine, _models, _metadata, _connection
UnsetModel == [_engine |-> None, _models |-> None, _metadata |-> None,
               _connection |-> None]

NoAccess == [op |-> "", out |-> None, exc |-> NoError]

\* no wrapped function has been called
NoTransaction ==
    [impl |-> "", supplied |-> "absent", raises |-> "none", engine_set |-> FALSE,
     pc |-> "idle", session |-> "unbound", kwargs_session |-> "none",
     committed |-> {}, rolled_back |-> {}, closed |-> {}, error |-> "none"]

\* no application object has been built
NoApplication == [sql_engine |-> None, _model_classes |-> <<>>, table_names |-> <<>>]

\* model classes a set_models call may hold
MaxModels == 2

Engines == {[cls |-> "Engine", id |-> n] : n \in 1..2}

MetaDatas == {[cls |-> "MetaData", id |-> n] : n \in 1..2}

ModelClasses == {"User", "Order"}

ModelLists == UNION {[1..n -> ModelClasses] : n \in 0..MaxModels}

\* _model.__tablename__
tablename(m) == IF m = "User" THEN "user" ELSE "order"

\* engine.connect(): a connection on that engine
connect(engine) == [cls |-> "Connection", id |-> engine.id]

\* Session(engine, expire_on_commit=False)
Session(engine) == [cls |-> "Session", id |-> engine.id]

\* a call on PySpringModel: the handles after it, what it returned or raised
Access(M, op, out, exc) == [M |-> M, access |-> [op |-> op, out |-> out, exc |-> exc]]

set_metadata(M, metadata) ==
    Access([M EXCEPT !._metadata = metadata], "set_metadata", None, NoError)

set_engine(M, engine) ==
    Access([M EXCEPT !._engine = engine], "set_engine", None, NoError)

set_models(M, models) ==
    Access([M EXCEPT !._models = [cls |-> "list", id |-> 0, items |-> models]],
           "set_models", None, NoError)

get_engine(M) ==
    IF M._engine = None
    THEN Access(M, "get_engine", None, Raise("ValueError", "ENGINE NOT SET", <<>>))
    ELSE Access(M, "get_engine", M._engine, NoError)

get_connection(M) ==
    IF M._connection # None
    THEN Access(M, "get_connection", M._connection, NoError)
    ELSE IF M._engine = None
    THEN Access(M, "get_connection", None, Raise("ValueError", "ENGINE NOT SET", <<>>))
    ELSE LET connected == [M EXCEPT !._connection = connect(M._engine)]
         IN  Access(connected, "get_connection", connected._connection, NoError)

get_metadata(M) ==
    IF M._metadata = None
    THEN Access(M, "get_metadata", None, Raise("ValueError", "METADATA NOT SET", <<>>))
    ELSE Access(M, "get_metadata", M._metadata, NoError)

\* {str(_model.__tablename__): _model for _model in cls._models}
RECURSIVE ModelLookupFrom(_, _, _)
ModelLookupFrom(models, i, lookup) ==
    IF i > Len(models) THEN lookup
    ELSE ModelLookupFrom(models, i + 1, DictSet(lookup, tablename(models[i]), models[i]))

get_model_lookup(M) ==
    IF M._models = None
    THEN Access(M, "get_model_lookup", None,
                Raise("ValueError", "MODEL_LOOKUP NOT SET", <<>>))
    ELSE Access(M, "get_model_lookup",
                [cls |-> "dict", id |-> 0,
                 items |-> ModelLookupFrom(M._models.items, 1, EmptyDict)], NoError)

create_session(M) ==
    LET engine == get_engine(M)
    IN  IF engine.access.exc # NoError
        THEN Access(M, "create_session", None, engine.access.exc)
        ELSE Access(M, "create_session", Session(engine.access.out), NoError)

----------------------------------------------------------------------------
(* Initial state and actions *)

\* a fresh ApplicationContext, before run() is called
InitApplication ==
    /\ component_cls_container = EmptyDict
    /\ controller_cls_container = EmptyDict
    /\ singleton_component_instance_container = EmptyDict
    /\ bean_collection_cls_container = EmptyDict
    /\ singleton_bean_instance_container = EmptyDict
    /\ properties_cls_container = EmptyDict
    /\ singleton_properties_instance_container = EmptyDict
    /\ optional_loaded_properties = EmptyDict
    /\ class_attrs = [c \in Classes |-> [i \in 1..Len(Annotations(c)) |-> Unset]]
    /\ config_scope = [h \in ConfigHolders |-> InitialScope(h)]
    /\ properties_file = NoFile
    /\ next_id = 1
    /\ trace = <<>>
    /\ err = NoError
    /\ propagated = NoError
    /\ last_lookup = NoLookup
    /\ pc = "register_app_entities"

Init ==
    /\ InitApplication
    /\ checked_func = NoCallable
    /\ hint_check = Unchecked
    /\ py_spring_model = UnsetModel
    /\ last_access = NoAccess
    /\ loader_file = NoFile
    /\ loaded_dict = NotLoaded
    /\ application = NoApplication
    /\ transaction = NoTransaction

\* Component.set_scope, called by the host application on its classes
SetScope(c, scope) ==
    /\ pc = "register_app_entities"
    /\ RegistrySize(Ctx) = 0
    /\ Commit(set_scope(Ctx, c, scope))

RegisterEntity(kind, c) ==
    /\ pc = "register_app_entities"
    /\ RegistrySize(Register(Ctx, kind, c)) <= MaxReg
    /\ Commit(Step(Register(Ctx, kind, c), "register_app_entities"))

LoadProperties(doc) ==
    /\ pc = "register_app_entities"
    /\ Commit(Step(load_properties([Ctx EXCEPT !.properties_file = doc]),
                   "init_ioc_container"))

InitIocContainer ==
    /\ pc = "init_ioc_container"
    /\ Commit(Step(init_ioc_container(Ctx), "inject_dependencies"))

InjectDependencies ==
    /\ pc = "inject_dependencies"
    /\ Commit(Step(inject_dependencies_for_app_entities(Ctx), "life_cycle_init"))

LifeCycleInit ==
    /\ pc = "life_cycle_init"
    /\ Commit(Step(handle_singleton_components_life_cycle(Ctx, "Init"),
                   "init_controllers"))

InitControllers ==
    /\ pc = "init_controllers"
    /\ Commit(Step(init_controllers(Ctx), "run_server"))

\* __run_server, when the server configuration enables it; uvicorn.run blocks
RunServer ==
    /\ pc = "run_server"
    /\ Commit(Step(Log(Ctx, Event("run_server", None, "", "")), "serving"))

\* the server is disabled or has stopped: run() reaches its finally block
Shutdown ==
    /\ pc \in {"run_server", "serving"}
    /\ Commit(RunFinally(Ctx))

GetComponent(c) ==
    /\ pc = "serving"
    /\ last_lookup.n < MaxLookups
    /\ LET r == get_component(Ctx, c)
       IN  Commit([r.S EXCEPT !.last_lookup = Lookup(Ctx, "get_component", c, r.out)])

Next ==
    \/ \E c \in ComponentClasses, scope \in Scopes : SetScope(c, scope)
    \/ \E kind \in RegistryKinds, c \in Classes : RegisterEntity(kind, c)
    \/ \E doc \in Documents : LoadProperties(doc)
    \/ InitIocContainer
    \/ InjectDependencies
    \/ LifeCycleInit
    \/ InitControllers
    \/ RunServer
    \/ Shutdown
    \/ \E c \in LookupClasses : GetComponent(c)

Spec == Init /\ [][Next]_vars

----------------------------------------------------------------------------
(* The type-hint check applied to one callable *)

InitTypeHints ==
    /\ InitApplication
    /\ checked_func \in Callables
    /\ hint_check = Unchecked
    /\ py_spring_model = UnsetModel
    /\ last_access = NoAccess
    /\ loader_file = NoFile
    /\ loaded_dict = NotLoaded
    /\ application = NoApplication
    /\ transaction = NoTransaction

CheckTypeHints ==
    /\ hint_check = Unchecked
    /\ hint_check' = checking_type_hints_for_callable(checked_func)
    /\ UNCHANGED <<component_cls_container, controller_cls_container,
                   singleton_component_instance_container,
                   bean_collection_cls_container, singleton_bean_instance_container,
                   properties_cls_container, singleton_properties_instance_container,
                   optional_loaded_properties, class_attrs, config_scope,
                   properties_file, next_id, trace, err, propagated, last_lookup,
                   pc, checked_func, py_spring_model, last_access,
          loader_file, loaded_dict,
          application, transaction>>

NextTypeHints == CheckTypeHints

SpecTypeHints == InitTypeHints /\ [][NextTypeHints]_vars

----------------------------------------------------------------------------
(* The calls on PySpringModel, in any order *)

InitModel ==
    /\ InitApplication
    /\ checked_func = NoCallable
    /\ hint_check = Unchecked
    /\ py_spring_model = UnsetModel
    /\ last_access = NoAccess
    /\ loader_file = NoFile
    /\ loaded_dict = NotLoaded
    /\ application = NoApplication
    /\ transaction = NoTransaction

\* one classmethod call: the handles and the outcome it leaves
Call(r) ==
    /\ py_spring_model' = r.M
    /\ last_access' = r.access
    /\ UNCHANGED <<component_cls_container, controller_cls_container,
                   singleton_component_instance_container,
                   bean_collection_cls_container, singleton_bean_instance_container,
                   properties_cls_container, singleton_properties_instance_container,
                   optional_loaded_properties, class_attrs, config_scope,
                   properties_file, next_id, trace, err, propagated, last_lookup,
                   pc, checked_func, hint_check,
                   loader_file, loaded_dict,
          application, transaction>>

SetMetadata(metadata) == Call(set_metadata(py_spring_model, metadata))

SetEngine(engine) == Call(set_engine(py_spring_model, engine))

SetModels(models) == Call(set_models(py_spring_model, models))

GetEngine == Call(get_engine(py_spring_model))

GetConnection == Call(get_connection(py_spring_model))

GetMetadata == Call(get_metadata(py_spring_model))

GetModelLookup == Call(get_model_lookup(py_spring_model))

CreateSession == Call(create_session(py_spring_model))

NextModel ==
    \/ \E metadata \in MetaDatas : SetMetadata(metadata)
    \/ \E engine \in Engines : SetEngine(engine)
    \/ \E models \in ModelLists : SetModels(models)
    \/ GetEngine
    \/ GetConnection
    \/ GetMetadata
    \/ GetModelLookup
    \/ CreateSession

SpecModel == InitModel /\ [][NextModel]_vars

----------------------------------------------------------------------------
(* The lookups of a bootstrapped context *)

\* entity classes the bootstrapped application may have scanned
MaxBootReg == 3

\* the state of ApplicationContext.__init__
NewContext ==
    [component_cls_container |-> EmptyDict,
     controller_cls_container |-> EmptyDict,
     singleton_component_instance_container |-> EmptyDict,
     bean_collection_cls_container |-> EmptyDict,
     singleton_bean_instance_container |-> EmptyDict,
     properties_cls_container |-> EmptyDict,
     singleton_properties_instance_container |-> EmptyDict,
     optional_loaded_properties |-> EmptyDict,
     class_attrs |-> [c \in Classes |-> [i \in 1..Len(Annotations(c)) |-> Unset]],
     config_scope |-> [h \in ConfigHolders |-> InitialScope(h)],
     properties_file |-> NoFile,
     next_id |-> 1,
     trace |-> <<>>,
     err |-> NoError,
     propagated |-> NoError,
     last_lookup |-> NoLookup,
     pc |-> "register_app_entities"]

\* the classes the class scanner hands to _register_app_entities, each with the
\* base type whose handler takes it
ScannedEntities ==
    {<<"Component", "A">>, <<"Component", "B">>, <<"Component", "P">>,
     <<"RestController", "Ctl2">>, <<"BeanCollection", "BC2">>,
     <<"Properties", "Cache">>}

ScannedLists ==
    {q \in UNION {[1..n -> ScannedEntities] : n \in 0..MaxBootReg} :
        \A i, j \in 1..Len(q) : i # j => q[i] # q[j]}

RECURSIVE RegisterFrom(_, _, _)
RegisterFrom(S, scanned_classes, i) ==
    IF i > Len(scanned_classes) \/ Failed(S) THEN S
    ELSE RegisterFrom(Register(S, scanned_classes[i][1], scanned_classes[i][2]),
                      scanned_classes, i + 1)

\* run() from _register_app_entities to the start of the server, call by call:
\* the contexts each call leaves, a call being reached when none before it raised
Continuing(contexts) == {S \in contexts : ~Failed(S)}

RegisteredContexts ==
    {RegisterFrom(NewContext, scanned_classes, 1) : scanned_classes \in ScannedLists}

LoadedContexts ==
    {load_properties([S EXCEPT !.properties_file = doc]) :
        S \in Continuing(RegisteredContexts), doc \in Documents}

BuiltContexts == {init_ioc_container(S) : S \in Continuing(LoadedContexts)}

InjectedContexts ==
    {inject_dependencies_for_app_entities(S) : S \in Continuing(BuiltContexts)}

InitializedContexts ==
    {handle_singleton_components_life_cycle(S, "Init") : S \in Continuing(InjectedContexts)}

MountedContexts == {init_controllers(S) : S \in Continuing(InitializedContexts)}

ServingContexts ==
    {[Log(S, Event("run_server", None, "", "")) EXCEPT !.pc = "serving"] :
        S \in Continuing(MountedContexts)}

\* the variables hold the context S
Holds(S) ==
    /\ component_cls_container = S.component_cls_container
    /\ controller_cls_container = S.controller_cls_container
    /\ singleton_component_instance_container = S.singleton_component_instance_container
    /\ bean_collection_cls_container = S.bean_collection_cls_container
    /\ singleton_bean_instance_container = S.singleton_bean_instance_container
    /\ properties_cls_container = S.properties_cls_container
    /\ singleton_properties_instance_container = S.singleton_properties_instance_container
    /\ optional_loaded_properties = S.optional_loaded_properties
    /\ class_attrs = S.class_attrs
    /\ config_scope = S.config_scope
    /\ properties_file = S.properties_file
    /\ next_id = S.next_id
    /\ trace = S.trace
    /\ err = S.err
    /\ propagated = S.propagated
    /\ last_lookup = S.last_lookup
    /\ pc = S.pc

\* an application whose bootstrap has completed and whose server runs
InitLookups ==
    /\ \E S \in ServingContexts : Holds(S)
    /\ checked_func = NoCallable
    /\ hint_check = Unchecked
    /\ py_spring_model = UnsetModel
    /\ last_access = NoAccess
    /\ loader_file = NoFile
    /\ loaded_dict = NotLoaded
    /\ application = NoApplication
    /\ transaction = NoTransaction

\* a lookup call of the host application and what it returned
Answer(r, op, c) ==
    /\ pc = "serving"
    /\ last_lookup.n < MaxLookups
    /\ Commit([r.S EXCEPT !.last_lookup = Lookup(Ctx, op, c, r.out)])

GetBean(c) == Answer(get_bean(Ctx, c), "get_bean", c)

GetProperties(c) == Answer(get_properties(Ctx, c), "get_properties", c)

GetSingletonComponentInstances ==
    Answer(Ret(Ctx, ListOf(get_singleton_component_instances(Ctx))),
           "get_singleton_component_instances", "")

GetSingletonBeanInstances ==
    Answer(Ret(Ctx, ListOf(get_singleton_bean_instances(Ctx))),
           "get_singleton_bean_instances", "")

GetControllerInstances ==
    Answer(get_controller_instances(Ctx), "get_controller_instances", "")

NextLookups ==
    \/ \E c \in LookupClasses : GetComponent(c)
    \/ \E c \in PlainClasses \cup {"B"} : GetBean(c)
    \/ \E c \in PropertiesClasses : GetProperties(c)
    \/ GetSingletonComponentInstances
    \/ GetSingletonBeanInstances
    \/ GetControllerInstances

SpecLookups == InitLookups /\ [][NextLookups]_vars

----------------------------------------------------------------------------
(* The document read of the two loaders *)

InitLoader ==
    /\ InitApplication
    /\ checked_func = NoCallable
    /\ hint_check = Unchecked
    /\ py_spring_model = UnsetModel
    /\ last_access = NoAccess
    /\ loader_file \in Documents
    /\ loaded_dict = NotLoaded
    /\ application = NoApplication
    /\ transaction = NoTransaction

LoadDict(result) ==
    /\ loaded_dict = NotLoaded
    /\ loaded_dict' = result
    /\ UNCHANGED <<component_cls_container, controller_cls_container,
                   singleton_component_instance_container,
                   bean_collection_cls_container, singleton_bean_instance_container,
                   properties_cls_container, singleton_properties_instance_container,
                   optional_loaded_properties, class_attrs, config_scope,
                   properties_file, next_id, trace, err, propagated, last_lookup,
                   pc, checked_func, hint_check, py_spring_model, last_access,
                   loader_file, application, transaction>>

LoadPropertiesDict == LoadDict(PropertiesDictFrom(loader_file, 0, 1))

LoadConfigDict == LoadDict(ConfigDictFrom(loader_file, 0, 1))

NextLoader == LoadPropertiesDict \/ LoadConfigDict

SpecLoader == InitLoader /\ [][NextLoader]_vars

----------------------------------------------------------------------------
(* The table-creation step and the repositories built after it *)

\* SQLModel.metadata.tables.keys() once the model modules have been imported
TableNameLists ==
    {q \in UNION {[1..n -> {tablename(m) : m \in ModelClasses}] : n \in 0..MaxModels} :
        \A i, j \in 1..Len(q) : i # j => q[i] # q[j]}

Applications ==
    [sql_engine : Engines, _model_classes : ModelLists, table_names : TableNameLists]

\* PySpringApplication._create_all_tables
create_all_tables(M, app) ==
    IF Len(app.table_names) = 0
    THEN Access(M, "_create_all_tables", None, NoError)
    ELSE LET with_engine == set_engine(M, app.sql_engine).M
             with_models == set_models(with_engine, app._model_classes).M
             with_metadata == set_metadata(with_models,
                                           [cls |-> "MetaData", id |-> 1]).M
         IN  Access(with_metadata, "_create_all_tables", None, NoError)

\* RepositoryBase.__init__: the engine, then the connection
repository_init(M) ==
    LET engine == get_engine(M)
        connection == get_connection(engine.M)
    IN  IF engine.access.exc # NoError
        THEN Access(engine.M, "RepositoryBase.__init__", None, engine.access.exc)
        ELSE IF connection.access.exc # NoError
        THEN Access(connection.M, "RepositoryBase.__init__", None, connection.access.exc)
        ELSE Access(connection.M, "RepositoryBase.__init__",
                    [cls |-> "RepositoryBase", engine |-> engine.access.out,
                     connection |-> connection.access.out], NoError)

InitTables ==
    /\ InitApplication
    /\ checked_func = NoCallable
    /\ hint_check = Unchecked
    /\ py_spring_model = UnsetModel
    /\ last_access = NoAccess
    /\ loader_file = NoFile
    /\ loaded_dict = NotLoaded
    /\ application \in Applications
    /\ transaction = NoTransaction

\* __init_app reaches _create_all_tables
CreateAllTables ==
    /\ last_access = NoAccess
    /\ Call(create_all_tables(py_spring_model, application))

\* init_ioc_container constructs a repository component
ConstructRepository ==
    /\ last_access.op = "_create_all_tables"
    /\ Call(repository_init(py_spring_model))

NextTables == CreateAllTables \/ ConstructRepository

SpecTables == InitTables /\ [][NextTables]_vars

----------------------------------------------------------------------------
(* The Transactional wrapper *)

\* the two copies of the decorator
Implementations == {"py_spring", "framework"}

\* what the wrapped function does: return, or raise one of two exceptions
FuncOutcomes == {"none", "ValueError", "KeyError"}

\* what the caller passes as the session keyword argument: nothing, a Session,
\* or a value that is no Session
SessionArguments == {"absent", "Session", "str"}

\* a call of the wrapper about to start, on a PySpringModel with or without an
\* engine
TransactionalCalls ==
    {[NoTransaction EXCEPT !.impl = impl, !.supplied = supplied, !.raises = raises,
                           !.engine_set = engine_set, !.pc = "enter"] :
        impl \in Implementations, supplied \in SessionArguments, raises \in FuncOutcomes,
        engine_set \in BOOLEAN}

\* isinstance(kwargs.get("session"), Session)
SessionSupplied(t) == t.supplied = "Session"

\* a statement that names the local variable session before it was assigned
Unbound(t) == t.session = "unbound"

\* the wrapper up to the call of func: the framework copy creates its session
\* before the try block, the py_spring copy inside it and only when the caller
\* passed none
wrapper_enter(t) ==
    IF t.impl = "framework"
    THEN IF ~t.engine_set
         THEN [t EXCEPT !.error = "ENGINE NOT SET", !.pc = "done"]
         ELSE [t EXCEPT !.session = "wrapper",
                        !.kwargs_session = IF SessionSupplied(t) THEN "caller" ELSE "wrapper",
                        !.pc = "call"]
    ELSE IF SessionSupplied(t)
    THEN [t EXCEPT !.kwargs_session = "caller", !.pc = "call"]
    ELSE IF ~t.engine_set
    THEN [t EXCEPT !.error = "ENGINE NOT SET", !.pc = "except"]
    ELSE [t EXCEPT !.session = "wrapper", !.kwargs_session = "wrapper", !.pc = "call"]

\* result = func(*args, **kwargs)
wrapper_call(t) ==
    IF t.raises # "none" THEN [t EXCEPT !.error = t.raises, !.pc = "except"]
    ELSE [t EXCEPT !.pc = "commit"]

\* session.commit(); return result
wrapper_commit(t) ==
    IF Unbound(t) THEN [t EXCEPT !.error = "UnboundLocalError", !.pc = "except"]
    ELSE [t EXCEPT !.committed = @ \cup {t.session}, !.pc = "finally"]

\* except Exception as error: session.rollback(); raise error
wrapper_except(t) ==
    IF Unbound(t) THEN [t EXCEPT !.error = "UnboundLocalError", !.pc = "finally"]
    ELSE [t EXCEPT !.rolled_back = @ \cup {t.session}, !.pc = "finally"]

\* finally: session.close()
wrapper_finally(t) ==
    IF Unbound(t) THEN [t EXCEPT !.error = "UnboundLocalError", !.pc = "done"]
    ELSE [t EXCEPT !.closed = @ \cup {t.session}, !.pc = "done"]

InitTransactional ==
    /\ InitApplication
    /\ checked_func = NoCallable
    /\ hint_check = Unchecked
    /\ py_spring_model = UnsetModel
    /\ last_access = NoAccess
    /\ loader_file = NoFile
    /\ loaded_dict = NotLoaded
    /\ application = NoApplication
    /\ transaction \in TransactionalCalls

\* the wrapper goes from one of its statements to the next
Wrapper(at, t) ==
    /\ transaction.pc = at
    /\ transaction' = t
    /\ UNCHANGED <<component_cls_container, controller_cls_container,
                   singleton_component_instance_container,
                   bean_collection_cls_container, singleton_bean_instance_container,
                   properties_cls_container, singleton_properties_instance_container,
                   optional_loaded_properties, class_attrs, config_scope,
                   properties_file, next_id, trace, err, propagated, last_lookup,
                   pc, checked_func, hint_check, py_spring_model, last_access,
                   loader_file, loaded_dict, application>>

WrapperEnter == Wrapper("enter", wrapper_enter(transaction))

WrapperCall == Wrapper("call", wrapper_call(transaction))

WrapperCommit == Wrapper("commit", wrapper_commit(transaction))

WrapperExcept == Wrapper("except", wrapper_except(transaction))

WrapperFinally == Wrapper("finally", wrapper_finally(transaction))

NextTransactional ==
    \/ WrapperEnter
    \/ WrapperCall
    \/ WrapperCommit
    \/ WrapperExcept
    \/ WrapperFinally

SpecTransactional == InitTransactional /\ [][NextTransactional]_vars

----------------------------------------------------------------------------
(* Vocabulary of the properties *)

\* the error names of the design, as the exceptions the code raises for them
IsNameConflict(e) == e.exc = "NameConflict"

IsDependencyResolutionError(e) ==
    e.exc = "ValueError" /\ e.tag = "DEPENDENCY INJECTION FAILED"

IsUnknownKey(e) == e.exc = "ValueError" /\ e.tag = "INVALID PROPERTIES KEY"

IsMissingKey(e) == e.exc = "TypeError" /\ e.tag = "PROPERTIES INITIALIZATION ERROR"

\* the exceptions that leave load_properties
LoadTags == {"Unsupported file extension", "INVALID PROPERTIES KEY", "model_validate",
             "PROPERTIES INITIALIZATION ERROR"}

\* load_properties has been called / has raised / has returned
PropertiesRead == properties_file # NoFile

LoadFailed == PropertiesRead /\ err.tag \in LoadTags

LoadSucceeded == PropertiesRead /\ err.tag \notin LoadTags

DocKeySet == {properties_file.entries[i].key : i \in 1..Len(properties_file.entries)}

\* the name a registry holds is bound to this very class
ClassRegistered(kind, c) ==
    /\ IsSubclass(c, kind)
    /\ DictHas(Registry(Ctx, kind), RegisteredName(kind, c))
    /\ DictAt(Registry(Ctx, kind), RegisteredName(kind, c)) = c

\* another class already holds the name c would be registered under
Collides(kind, c) ==
    /\ DictHas(Registry(Ctx, kind), RegisteredName(kind, c))
    /\ DictAt(Registry(Ctx, kind), RegisteredName(kind, c)) # c

ScopeOf(c) == config_scope[ConfigOf(c)]

EventsOf(ev) == {i \in 1..Len(trace) : trace[i].ev = ev}

\* the injector has been run on entity e
Attempted(e) == \E k \in EventsOf("inject") : trace[k].on = e

\* the injector has been run on e and came as far as its i-th annotation
Reached(e, i) ==
    /\ Attempted(e)
    /\ \A j \in 1..(i - 1) : Annotations(e)[j].kind = AClass => class_attrs[e][j] # Unset

\* the i-th annotation of e is a class that is no Properties type
DependencyField(e, i) ==
    /\ Annotations(e)[i].kind = AClass
    /\ ~IsSubclass(Annotations(e)[i].cls, "Properties")

\* t is a registered component with an instance at hand, or a bean of the bean map
Available(t) ==
    \/ /\ IsSubclass(t, "Component")
       /\ DictHas(component_cls_container, ClassName(t))
       /\ \/ ScopeOf(t) = "Prototype"
          \/ DictHas(singleton_component_instance_container, ClassName(t))
    \/ DictHas(singleton_bean_instance_container, ClassName(t))

FieldError(e, i) ==
    Raise("ValueError", "DEPENDENCY INJECTION FAILED",
          <<Annotations(e)[i].name, ClassName(Annotations(e)[i].cls)>>)

\* a lifecycle hook of the host application raised
IsHookFailure(e) == e.exc = "RuntimeError" /\ e.tag = "HOOK"

HookAt(o, hook) == {k \in EventsOf("hook") : trace[k].obj = o /\ trace[k].what = hook}

InitHookEvents == {k \in EventsOf("hook") : trace[k].what \in SeqToSet(InitHooks)}

----------------------------------------------------------------------------
(* C1: registering a second, distinct class under a name its kind already   *)
(* holds fails with NameConflict and leaves the registry entry on the first *)
(* class.  The code assigns the dict entry unconditionally.                 *)
C1_NameConflictOnCollision ==
    [][\A kind \in RegistryKinds, c \in Classes :
          (RegisterEntity(kind, c) /\ IsSubclass(c, kind) /\ Collides(kind, c))
            => (IsNameConflict(err') /\ Registry(Ctx, kind)' = Registry(Ctx, kind))]_vars

C4_EveryUnresolvedFieldNamed ==
    \A e \in ComponentClasses : \A i \in 1..Len(Annotations(e)) :
        (Attempted(e) /\ DependencyField(e, i) /\ ~Available(Annotations(e)[i].cls))
          => err = FieldError(e, i)

(* C4, amended: the same for the field the injector reaches, that is when   *)
(* no field declared before it on A has failed first.                       *)
C4_FirstUnresolvedFieldNamed ==
    \A e \in Classes : \A i \in 1..Len(Annotations(e)) :
        (Reached(e, i) /\ DependencyField(e, i) /\ ~Available(Annotations(e)[i].cls))
          => /\ err = FieldError(e, i)
             /\ IsDependencyResolutionError(err)
             /\ class_attrs[e][i] = Unset
             /\ pc = "done"

C4_Witness ==
    /\ Attempted("A")
    /\ ~Available("B")
    /\ err = FieldError("A", 1)
    /\ err.args = <<"b", "B">>

(* C5: a dependency field whose type B is registered as a Singleton         *)
(* component is assigned when the injector reaches it, and holds the very   *)
(* instance get_component(B) returns.                                       *)
C5_FieldHoldsTheSingleton ==
    \A e \in Classes : \A i \in 1..Len(Annotations(e)) :
        (/\ Reached(e, i)
         /\ DependencyField(e, i)
         /\ IsSubclass(Annotations(e)[i].cls, "Component")
         /\ DictHas(component_cls_container, ClassName(Annotations(e)[i].cls))
         /\ ScopeOf(Annotations(e)[i].cls) = "Singleton")
        => /\ class_attrs[e][i] # Unset
           /\ class_attrs[e][i] # None
           /\ class_attrs[e][i] = get_component(Ctx, Annotations(e)[i].cls).out

C5_Witness ==
    /\ last_lookup.op = "get_component"
    /\ last_lookup.cls = "B"
    /\ ClassRegistered("Component", "B")
    /\ ClassRegistered("Component", "A")
    /\ last_lookup.out.cls = "B"
    /\ class_attrs["A"][1] = last_lookup.out

(* C6: every singleton component instance receives pre_initialize,          *)
(* initialize, post_initialize in that order and once, and no init hook     *)
(* runs before the injector has assigned every dependency field of every    *)
(* registered component class.  A hook that raises ends the bootstrap: the  *)
(* triple it belongs to stops there and no later instance is initialized.   *)
C6_InitTripleOnceAfterInjection ==
    /\ \A k \in InitHookEvents :
          LET o == trace[k].obj
          IN  /\ \A hook \in SeqToSet(InitHooks) :
                    /\ Cardinality(HookAt(o, hook)) <= 1
                    /\ ~IsHookFailure(err) => Cardinality(HookAt(o, hook)) = 1
              /\ HookAt(o, "post_initialize") # {} => HookAt(o, "initialize") # {}
              /\ HookAt(o, "initialize") # {} => HookAt(o, "pre_initialize") # {}
              /\ \A a \in HookAt(o, "pre_initialize"), b \in HookAt(o, "initialize"),
                    c \in HookAt(o, "post_initialize") : a < b /\ b < c
              /\ \E i \in 1..Len(singleton_component_instance_container) :
                    singleton_component_instance_container[i].v = o
    /\ (pc \in {"init_controllers", "run_server", "serving"} \/ (pc = "done" /\ ~Failed(Ctx)))
          => \A i \in 1..Len(singleton_component_instance_container) :
                HookAt(singleton_component_instance_container[i].v, "initialize") # {}
    /\ InitHookEvents # {}
          => /\ \A i \in 1..Len(component_cls_container) :
                   LET c == component_cls_container[i].v
                   IN  /\ Attempted(c)
                       /\ \A j \in 1..Len(Annotations(c)) :
                             Annotations(c)[j].kind = AClass => class_attrs[c][j] # Unset
             /\ \A k \in EventsOf("setattr") : \A h \in InitHookEvents :
                   trace[k].on \in ComponentClasses => k < h

C6_Witness ==
    /\ pc = "init_controllers"
    /\ Len(singleton_component_instance_container) = 2
    /\ ClassRegistered("Component", "A")
    /\ class_attrs["A"][1] # Unset
    /\ Cardinality(InitHookEvents) = 6

(* C7: lifecycle hooks fire in construction order on initialization and in  *)
(* the reverse order on teardown: for X constructed before Y, the init      *)
(* hooks of X precede those of Y and the destroy hooks of Y precede those   *)
(* of X.  The code walks the instance map forward both times.               *)
C7_TeardownReversesConstruction ==
    pc = "done" =>
        \A i, j \in 1..Len(singleton_component_instance_container) :
            LET x == singleton_component_instance_container[i].v
                y == singleton_component_instance_container[j].v
            IN  (i < j /\ x.id < y.id)
                  => /\ \A a \in HookAt(x, "post_initialize"),
                           b \in HookAt(y, "pre_initialize") : a < b
                     /\ \A a \in HookAt(y, "post_destroy"),
                           b \in HookAt(x, "pre_destroy") : a < b

(* C8, as stated: a document with a top-level key no schema is registered   *)
(* under makes load_properties fail with UnknownKey, and the properties     *)
(* map stays empty.                                                         *)
C8_UnknownKeyAlwaysReported ==
    (PropertiesRead /\ DocKeySet \ KeySet(properties_cls_container) # {})
      => IsUnknownKey(err) /\ singleton_properties_instance_container = EmptyDict

\* the place of the first document key without a registered schema
FirstUnknown ==
    CHOOSE i \in 1..Len(properties_file.entries) :
        /\ properties_file.entries[i].key \notin KeySet(properties_cls_container)
        /\ \A j \in 1..(i - 1) :
              properties_file.entries[j].key \in KeySet(properties_cls_container)

(* C8, amended: such a document makes load_properties fail and the          *)
(* properties map stays empty; the error is UnknownKey, naming the first    *)
(* such key, when the document's extension has a parser and every value     *)
(* before that key passes its schema.                                       *)
C8_UnknownKeyFailsTheLoad ==
    (PropertiesRead /\ DocKeySet \ KeySet(properties_cls_container) # {})
      => /\ LoadFailed
         /\ pc = "done"
         /\ singleton_properties_instance_container = EmptyDict
         /\ optional_loaded_properties = EmptyDict
         /\ (/\ properties_file.ext \in SupportedExtensions
             /\ \A j \in 1..(FirstUnknown - 1) : properties_file.entries[j].valid)
            => /\ IsUnknownKey(err)
               /\ err.args = <<properties_file.entries[FirstUnknown].key>>

C8_Witness ==
    /\ IsUnknownKey(err)
    /\ Len(properties_file.entries) = 2
    /\ properties_file.entries[1].key \in KeySet(properties_cls_container)
    /\ properties_file.entries[1].valid
    /\ singleton_properties_instance_container = EmptyDict

(* C9, as stated: a schema registered under a key the document lacks makes  *)
(* loading fail with MissingKey.                                            *)
C9_MissingKeyAlwaysReported ==
    (PropertiesRead /\ KeySet(properties_cls_container) \ DocKeySet # {})
      => IsMissingKey(err)

\* the place, in the registry, of the first schema whose key the document lacks
FirstMissing ==
    CHOOSE i \in 1..Len(properties_cls_container) :
        /\ properties_cls_container[i].k \notin DocKeySet
        /\ \A j \in 1..(i - 1) : properties_cls_container[j].k \in DocKeySet

(* C9, amended: such a schema makes loading fail, so that loading never     *)
(* succeeds with an unsatisfied schema; the error is MissingKey, for the    *)
(* first such schema, when the loader has accepted the document (its        *)
(* extension has a parser, every key has a schema, every value is valid).   *)
C9_MissingKeyFailsTheLoad ==
    (PropertiesRead /\ KeySet(properties_cls_container) \ DocKeySet # {})
      => /\ LoadFailed
         /\ pc = "done"
         /\ optional_loaded_properties = EmptyDict
         /\ (/\ properties_file.ext \in SupportedExtensions
             /\ DocKeySet \subseteq KeySet(properties_cls_container)
             /\ \A j \in 1..Len(properties_file.entries) : properties_file.entries[j].valid)
            => /\ IsMissingKey(err)
               /\ err.args[1] = properties_cls_container[FirstMissing].k

C9_Witness ==
    /\ IsMissingKey(err)
    /\ Len(properties_cls_container) = 2
    /\ Len(singleton_properties_instance_container) = 1
    /\ err.args[1] = properties_cls_container[2].k

(* C10: whenever load_properties returns, the properties map holds one      *)
(* instance per registered schema key, each of the class registered under   *)
(* the key, and its key set is the set of registered keys and the set of    *)
(* top-level keys of the document.                                          *)
C10_LoadedKeysMatch ==
    LoadSucceeded
      => /\ KeySet(singleton_properties_instance_container) = KeySet(properties_cls_container)
         /\ KeySet(singleton_properties_instance_container) = DocKeySet
         /\ Len(singleton_properties_instance_container) = Len(properties_cls_container)
         /\ \A i \in 1..Len(properties_cls_container) :
               DictAt(singleton_properties_instance_container,
                      properties_cls_container[i].k).cls = properties_cls_container[i].v
         /\ \A i, j \in 1..Len(singleton_properties_instance_container) :
               i # j => singleton_properties_instance_container[i].v
                          # singleton_properties_instance_container[j].v
         /\ optional_loaded_properties = singleton_properties_instance_container

C10_Witness ==
    /\ LoadSucceeded
    /\ Len(singleton_properties_instance_container) = 2
    /\ DocKeySet = {"db", "cache"}

----------------------------------------------------------------------------
(* Beans: what the factory calls of the history produced *)

\* the create* method called at event k of the history
FactoryAt(k) ==
    LET fs == Factories(trace[k].on)
    IN  fs[CHOOSE i \in 1..Len(fs) : fs[i].func = trace[k].what]

\* the bean name of the view built at event k: the name of the declared return type
BeanNameAt(k) == ClassName(FactoryAt(k).ret)

InBeanMap(o) ==
    \E i \in 1..Len(singleton_bean_instance_container) :
        singleton_bean_instance_container[i].v = o

\* the insertion loop came as far as the view built at event k
EarlierViewsInserted(k) ==
    \A j \in EventsOf("factory") :
        (j < k /\ trace[j].on = trace[k].on) => InBeanMap(trace[j].obj)

\* the produced object is not of the class the factory declares to return
Mismatched(k) == ClassName(trace[k].obj.cls) # BeanNameAt(k)

IsInvalidBeanError(e) == e.exc = "InvalidBeanError" /\ e.tag = "INVALID BEAN"

IsBeanConflictError(e) == e.exc = "BeanConflictError" /\ e.tag = "BEAN CONFLICTS"

(* C11, as stated: a factory whose product is not of the declared return    *)
(* type makes bean resolution fail with InvalidBeanError, and the product   *)
(* is not inserted into the bean map.                                       *)
C11_MismatchAlwaysInvalidBean ==
    \A k \in EventsOf("factory") :
        Mismatched(k) => IsInvalidBeanError(err) /\ ~InBeanMap(trace[k].obj)

(* C11, amended: such a product is never inserted and bean resolution       *)
(* fails; the error is InvalidBeanError, naming the bean name and the       *)
(* product's class, when the insertion loop reaches the bean and the map    *)
(* holds no bean of that name, and BeanConflictError when it does: the      *)
(* name is looked up before the product is validated.                       *)
C11_MismatchNeverInserted ==
    \A k \in EventsOf("factory") :
        Mismatched(k)
          => /\ ~InBeanMap(trace[k].obj)
             /\ pc = "done"
             /\ IsInvalidBeanError(err) \/ IsBeanConflictError(err)
             /\ (EarlierViewsInserted(k)
                   /\ ~DictHas(singleton_bean_instance_container, BeanNameAt(k)))
                => err = Raise("InvalidBeanError", "INVALID BEAN",
                               <<BeanNameAt(k), ClassName(trace[k].obj.cls)>>)
             /\ (EarlierViewsInserted(k)
                   /\ DictHas(singleton_bean_instance_container, BeanNameAt(k)))
                => err = Raise("BeanConflictError", "BEAN CONFLICTS",
                               <<BeanNameAt(k), get_name(trace[k].on)>>)

C11_Witness ==
    /\ IsInvalidBeanError(err)
    /\ err.args = <<"Widget", "Gadget">>
    /\ \E k \in EventsOf("factory") : Mismatched(k) /\ trace[k].obj.cls = "Gadget"
    /\ ~DictHas(singleton_bean_instance_container, "Widget")

(* C12: when the insertion loop reaches a bean whose name the bean map      *)
(* already holds, put there by the same or by another collection, bean      *)
(* resolution fails with BeanConflictError naming it, and the map still     *)
(* holds under that name the object produced first.                         *)
C12_ConflictKeepsTheFirstBean ==
    \A k \in EventsOf("factory") :
        LET earlier == {j \in EventsOf("factory") :
                           j < k /\ BeanNameAt(j) = BeanNameAt(k)}
        IN  (EarlierViewsInserted(k) /\ \E j \in earlier : InBeanMap(trace[j].obj))
              => /\ err = Raise("BeanConflictError", "BEAN CONFLICTS",
                                <<BeanNameAt(k), get_name(trace[k].on)>>)
                 /\ pc = "done"
                 /\ ~InBeanMap(trace[k].obj)
                 /\ DictAt(singleton_bean_instance_container, BeanNameAt(k))
                      = trace[CHOOSE j \in earlier : \A i \in earlier : j <= i].obj

C12_Witness ==
    /\ IsBeanConflictError(err)
    /\ err.args[1] = "Widget"
    /\ DictHas(singleton_bean_instance_container, "Widget")
    /\ \E j, k \in EventsOf("factory") :
          /\ j < k
          /\ trace[j].on # trace[k].on
          /\ BeanNameAt(j) = "Widget" /\ BeanNameAt(k) = "Widget"
          /\ DictAt(singleton_bean_instance_container, "Widget") = trace[j].obj

----------------------------------------------------------------------------
(* Registration *)

\* the four class registries
Registries == <<component_cls_container, controller_cls_container,
                bean_collection_cls_container, properties_cls_container>>

IsTypeKindMismatch(e) ==
    /\ e.exc = "TypeError"
    /\ e.tag \in {"COMPONENT REGISTRATION ERROR", "CONTROLLER REGISTRATION ERROR",
                  "BEAN COLLECTION REGISTRATION ERROR", "PROPERTIES REGISTRATION ERROR"}

\* the state a call register(kind, c) made now by run() would leave
AfterRegister(kind, c) == Step(Register(Ctx, kind, c), "register_app_entities")

\* the four class registries of a state
RegistriesOf(S) == <<S.component_cls_container, S.controller_cls_container,
                     S.bean_collection_cls_container, S.properties_cls_container>>

(* C13: registering, under its kind, a class the registry of that kind      *)
(* already holds raises no error and leaves the four registries, and the    *)
(* whole state, as they were after the first registration.                  *)
C13_ReRegistrationIsIdempotent ==
    pc = "register_app_entities"
      => \A kind \in RegistryKinds, c \in Classes :
            ClassRegistered(kind, c)
              => /\ AfterRegister(kind, c).err = NoError
                 /\ RegistriesOf(AfterRegister(kind, c)) = Registries
                 /\ AfterRegister(kind, c) = Ctx

C13_Witness ==
    /\ pc = "register_app_entities"
    /\ err = NoError
    /\ ClassRegistered("Component", "A")
    /\ ClassRegistered("Properties", "Db")
    /\ ENABLED RegisterEntity("Component", "A")

(* C14: register(kind, class) with a class that is no subclass of the base  *)
(* type of the kind fails with the kind's registration TypeError, and none  *)
(* of the four registries is modified.                                      *)
C14_WrongKindIsRefused ==
    pc = "register_app_entities"
      => \A kind \in RegistryKinds, c \in Classes :
            ~IsSubclass(c, kind)
              => /\ IsTypeKindMismatch(AfterRegister(kind, c).err)
                 /\ RegistriesOf(AfterRegister(kind, c)) = Registries
                 /\ AfterRegister(kind, c).pc = "done"

C14_Witness ==
    /\ IsTypeKindMismatch(err)
    /\ err.tag = "CONTROLLER REGISTRATION ERROR"
    /\ pc = "done"
    /\ Len(component_cls_container) = 1
    /\ controller_cls_container = EmptyDict

----------------------------------------------------------------------------
(* Injection of properties *)

\* the i-th annotation of e is a Properties type
PropertiesField(e, i) ==
    /\ Annotations(e)[i].kind = AClass
    /\ IsSubclass(Annotations(e)[i].cls, "Properties")

IsPropertiesNotLoaded(e) ==
    e.exc = "TypeError" /\ e.tag = "PROPERTIES INJECTION ERROR"

----------------------------------------------------------------------------
(* Bean factories and their parameters *)

\* the call of the factory whose argument was bound at event k of the history
CallAfter(k) ==
    {f \in EventsOf("factory") :
        /\ f > k
        /\ trace[f].what = trace[k].on
        /\ \A m \in (k + 1)..(f - 1) : trace[m].ev # "factory"}

(* C16: a factory parameter whose type matches no loaded properties         *)
(* instance stays unbound, and calling the factory is a construction        *)
(* error: the factory never runs to completion with a placeholder in the    *)
(* place of such a parameter.  The code binds None and calls the factory.   *)
C16_NoCallWithPlaceholder ==
    \A k \in EventsOf("bind") :
        trace[k].obj = None => (CallAfter(k) = {} /\ Failed(Ctx))

----------------------------------------------------------------------------
(* The phases of the bootstrap *)

\* the phase of run() an exception was raised in: 1 registration, 2 properties
\* loading, 3 init_ioc_container, 4 injection, 5 init hooks; 0 for no exception
FailedPhase ==
    CASE ~Failed(Ctx) -> 0
      [] IsTypeKindMismatch(err) \/ err.tag = "KEY NOT SET" -> 1
      [] err.tag \in LoadTags -> 2
      [] IsBeanConflictError(err) \/ IsInvalidBeanError(err) -> 3
      [] IsDependencyResolutionError(err) \/ IsPropertiesNotLoaded(err) ->
            LET injections == EventsOf("inject")
                last == CHOOSE k \in injections : \A j \in injections : j <= k
            IN  IF trace[last].on \in BeanCollectionClasses THEN 3 ELSE 4
      [] IsHookFailure(err) -> 5

\* the phase of run() that event k of the history belongs to (6 mounting the
\* controllers, 7 the server); 0 for the events several phases or the teardown make
PhaseOfEvent(k) ==
    CASE trace[k].ev \in {"bind", "factory"} -> 3
      [] trace[k].ev = "inject" ->
            IF trace[k].on \in BeanCollectionClasses THEN 3 ELSE 4
      [] trace[k].ev = "setattr" ->
            IF trace[k].on \in BeanCollectionClasses THEN 3 ELSE 4
      [] trace[k].ev = "hook" /\ trace[k].what \in SeqToSet(InitHooks) -> 5
      [] trace[k].ev = "include_router" -> 6
      [] trace[k].ev = "run_server" -> 7
      [] OTHER -> 0

(* C17: when a bootstrap phase has failed, run() is over, nothing of a      *)
(* later phase has been executed, no controller has been mounted and the    *)
(* server has not been started.                                             *)
C17_FailureAbortsStartup ==
    Failed(Ctx)
      => /\ pc = "done"
         /\ \A k \in 1..Len(trace) : PhaseOfEvent(k) <= FailedPhase
         /\ EventsOf("include_router") = {}
         /\ EventsOf("run_server") = {}
         /\ FailedPhase = 1 => trace = <<>>
         /\ FailedPhase = 2
               => \A k \in 1..Len(trace) :
                     trace[k].ev = "construct" /\ trace[k].obj.cls \in PropertiesClasses

C17_Witness ==
    /\ FailedPhase = 4
    /\ pc = "done"
    /\ Len(controller_cls_container) = 1
    /\ Len(singleton_component_instance_container) = 1
    /\ \E k \in EventsOf("setattr") : trace[k].on \in ComponentClasses

(* C18: an error raised during the bootstrap reaches the caller of run()    *)
(* as it was raised: nothing executed on the way out, the teardown of the   *)
(* finally block included, swallows or replaces it.  A destroy hook that    *)
(* raises in the finally block replaces the exception in flight.            *)
C18_CallerSeesThePhaseError ==
    (pc = "done" /\ Failed(Ctx)) => propagated = err

----------------------------------------------------------------------------
(* Controllers *)

\* every class-typed field of class c has been assigned
FullyInjected(c) ==
    \A j \in 1..Len(Annotations(c)) :
        Annotations(c)[j].kind = AClass => class_attrs[c][j] # Unset

(* C19: a controller instance is handed to the HTTP layer only after the    *)
(* injector has run on every registered controller class, and every         *)
(* instance handed over has all its class-typed dependency fields           *)
(* resolved; no controller field is assigned after a hand-over.             *)
C19_ControllersMountedAfterInjection ==
    \A k \in EventsOf("include_router") :
        /\ \E i \in 1..Len(controller_cls_container) :
              controller_cls_container[i].v = trace[k].obj.cls
        /\ FullyInjected(trace[k].obj.cls)
        /\ \A i \in 1..Len(controller_cls_container) :
              /\ FullyInjected(controller_cls_container[i].v)
              /\ \E j \in EventsOf("inject") :
                    j < k /\ trace[j].on = controller_cls_container[i].v
        /\ \A j \in EventsOf("setattr") : trace[j].on \in ControllerClasses => j < k

C19_Witness ==
    /\ \E k \in EventsOf("include_router") : trace[k].obj.cls = "Ctl"
    /\ class_attrs["Ctl"][1].cls \in PropertiesClasses
    /\ class_attrs["Ctl"][2].cls = "Widget"

(* C20: on every exit path of run() each singleton component instance has   *)
(* received pre_destroy, destroy, post_destroy, in that order and once      *)
(* each, and no destroy hook is called before run() reaches its finally     *)
(* block.  A destroy hook that raises ends the teardown loop.               *)
C20_DestroyTripleOnEveryExit ==
    /\ pc # "done"
          => \A k \in EventsOf("hook") : trace[k].what \notin SeqToSet(DestroyHooks)
    /\ pc = "done"
          => \A i \in 1..Len(singleton_component_instance_container) :
                LET o == singleton_component_instance_container[i].v
                IN  /\ \A hook \in SeqToSet(DestroyHooks) :
                          Cardinality(HookAt(o, hook)) = 1
                    /\ \A a \in HookAt(o, "pre_destroy"), b \in HookAt(o, "destroy"),
                          c \in HookAt(o, "post_destroy") : a < b /\ b < c


----------------------------------------------------------------------------
(* The type-hint check *)

IsReturnTypeNotProvided(e) == e.exc = "TypeHintsNotProvidedError" /\ e.tag = "RETURN"

IsNotFullyProvided(e) ==
    e.exc = "TypeHintsNotProvidedError" /\ e.tag \in {"NONE", "COUNT"}

\* some parameter other than a method's self carries no annotation
LacksAnnotation(f) ==
    \/ \E i \in 1..Len(f.params) : ~f.params[i]
    \/ f.kwonly = "bare"

\* C21: the check is decided by the annotations alone: without a return
\* annotation it fails with the return-type error whatever the parameters carry;
\* otherwise it fails with the not-fully-provided error when a parameter other
\* than a method's self lacks an annotation; otherwise it raises nothing, so a
\* fully annotated method taking self and an annotated callable without
\* arguments are both accepted.
C21_DecidedByAnnotations ==
    hint_check # Unchecked =>
        IF ~checked_func.ret
        THEN IsReturnTypeNotProvided(hint_check)
        ELSE IF LacksAnnotation(checked_func)
        THEN IsNotFullyProvided(hint_check)
        ELSE hint_check = NoError

----------------------------------------------------------------------------
(* The persistence handles *)

IsEngineNotConfigured(e) ==
    e.exc = "ValueError"
        /\ e.tag \in {"ENGINE NOT SET", "METADATA NOT SET", "MODEL_LOOKUP NOT SET"}

\* C22: an accessor of a handle that no setter has set yet fails with an
\* EngineNotConfigured-class error; once the setter has run the accessor returns
\* what was set: the engine, the metadata, the models by table name, a
\* connection and a session on the engine that was set.
C22_AccessorsFollowTheSetters ==
    LET M == py_spring_model
        a == last_access
    IN  /\ a.op = "get_engine" =>
              IF M._engine = None THEN IsEngineNotConfigured(a.exc)
              ELSE a.exc = NoError /\ a.out = M._engine
        /\ a.op = "get_metadata" =>
              IF M._metadata = None THEN IsEngineNotConfigured(a.exc)
              ELSE a.exc = NoError /\ a.out = M._metadata
        /\ a.op = "get_model_lookup" =>
              IF M._models = None THEN IsEngineNotConfigured(a.exc)
              ELSE /\ a.exc = NoError
                   /\ KeySet(a.out.items) = {tablename(m) : m \in SeqToSet(M._models.items)}
                   /\ \A k \in KeySet(a.out.items) :
                         /\ DictAt(a.out.items, k) \in SeqToSet(M._models.items)
                         /\ tablename(DictAt(a.out.items, k)) = k
        /\ a.op = "get_connection" =>
              IF M._engine = None THEN IsEngineNotConfigured(a.exc)
              ELSE a.exc = NoError /\ a.out = connect(M._engine)
        /\ a.op = "create_session" =>
              IF M._engine = None THEN IsEngineNotConfigured(a.exc)
              ELSE a.exc = NoError /\ a.out = Session(M._engine)

----------------------------------------------------------------------------
(* The two phases of bootstrap *)

\* the events that build a singleton component instance or a bean
BuildEvents ==
    {k \in 1..Len(trace) :
        \/ trace[k].ev = "factory"
        \/ /\ trace[k].ev = "construct"
           /\ \E i \in 1..Len(singleton_component_instance_container) :
                 singleton_component_instance_container[i].v = trace[k].obj}

\* the events in which the injector takes up an entity or assigns one of its fields
ResolutionEvents == EventsOf("inject") \cup EventsOf("setattr")

(* C23 as stated: no dependency field of any entity is resolved or assigned  *)
(* until every singleton component and every bean of every registered       *)
(* collection has been constructed.  A bean collection's own fields are      *)
(* assigned before its factories run.                                        *)
C23_NoFieldBeforeEverythingBuilt ==
    \A k \in EventsOf("setattr") : \A j \in BuildEvents : j < k

(* C23: no dependency field of a component or a controller is resolved or    *)
(* assigned until every singleton component and every bean has been          *)
(* constructed; the fields of a bean collection are resolved after every     *)
(* singleton component has been constructed and before any factory of that   *)
(* collection or of a collection registered after it is invoked.             *)
C23_ComponentFieldsAfterEverythingBuilt ==
    \A k \in ResolutionEvents :
        IF trace[k].on \notin BeanCollectionClasses
        THEN \A j \in BuildEvents : j < k
        ELSE \A j \in BuildEvents :
                 IF trace[j].ev = "construct" THEN j < k
                 ELSE ( \/ trace[j].on = trace[k].on
                        \/ \E m \in EventsOf("construct") :
                              /\ trace[m].obj.cls = trace[j].on
                              /\ k < m ) => k < j

C23_Witness ==
    /\ ~Failed(Ctx)
    /\ \E k \in EventsOf("setattr"), j \in EventsOf("factory"), i \in EventsOf("construct") :
          /\ trace[k].on \in ComponentClasses \cup ControllerClasses
          /\ i \in BuildEvents

----------------------------------------------------------------------------
(* The run of the properties loader *)

\* the steps in which the loader validated a document entry into an instance
ValidationEvents ==
    {k \in EventsOf("construct") : trace[k].obj.cls \in PropertiesClasses}

----------------------------------------------------------------------------
(* Injection and the init hooks *)

\* the classes inject_dependencies_for_app_entities walks
InjectionTargets ==
    SeqToSet(DictValues(component_cls_container))
        \cup SeqToSet(DictValues(controller_cls_container))

\* the i-th annotation of c was assigned before event k
AssignedBefore(c, i, k) ==
    \E s \in EventsOf("setattr") :
        s < k /\ trace[s].on = c /\ trace[s].what = Annotations(c)[i].name

----------------------------------------------------------------------------
(* The lifecycle states of a singleton component instance *)

\* o has been through its whole initialization triple before event k
InitializedBefore(o, k) ==
    \E a \in HookAt(o, "pre_initialize"), b \in HookAt(o, "initialize"),
       c \in HookAt(o, "post_initialize") : a < b /\ b < c /\ c < k

(* C26: an instance goes Constructed, Injected, Initialized, running,        *)
(* Destroying, Destroyed in that order on every run: no instance receives a  *)
(* destroy hook unless it has completed its initialization triple before,    *)
(* also when bootstrap fails after construction.  The finally block of run() *)
(* destroys every singleton, initialized or not.                             *)
C26_NoDestroyWithoutInit ==
    \A k \in EventsOf("hook") :
        trace[k].what \in SeqToSet(DestroyHooks) => InitializedBefore(trace[k].obj, k)

----------------------------------------------------------------------------
(* The order of the two lookups of the injector *)

\* get_component can answer for type t: a component class is registered under
\* t's name and, when t is Singleton-scoped, the singleton map holds its instance
ComponentAnswers(t) ==
    /\ IsSubclass(t, "Component")
    /\ DictHas(component_cls_container, ClassName(t))
    /\ ScopeOf(t) = "Singleton"
          => DictHas(singleton_component_instance_container, ClassName(t))

InSingletonMap(o) ==
    \E i \in 1..Len(singleton_component_instance_container) :
        singleton_component_instance_container[i].v = o

(* C27: for a dependency type T that is neither primitive nor a Properties   *)
(* type the component lookup is tried first and the bean lookup second:      *)
(* when the component lookup answers, the field holds its result (the        *)
(* singleton of the map, or a fresh instance of a Prototype type), also when *)
(* a bean is available under T's name; the field holds the bean of the bean  *)
(* map only when the component lookup yields nothing.                        *)
C27_ComponentBeforeBean ==
    \A e \in Classes : \A i \in 1..Len(Annotations(e)) :
        (DependencyField(e, i) /\ class_attrs[e][i] # Unset) =>
            LET t == Annotations(e)[i].cls
                v == class_attrs[e][i]
            IN  IF ComponentAnswers(t)
                THEN IF ScopeOf(t) = "Singleton"
                     THEN v = DictAt(singleton_component_instance_container, ClassName(t))
                     ELSE v.cls = t /\ ~InSingletonMap(v) /\ ~InBeanMap(v)
                ELSE /\ DictHas(singleton_bean_instance_container, ClassName(t))
                     /\ v = DictAt(singleton_bean_instance_container, ClassName(t))

C27_Witness ==
    \E e \in Classes : \E i \in 1..Len(Annotations(e)) :
        LET t == Annotations(e)[i].cls
        IN  /\ DependencyField(e, i)
            /\ class_attrs[e][i] # Unset
            /\ ComponentAnswers(t)
            /\ DictHas(singleton_bean_instance_container, ClassName(t))
            /\ class_attrs[e][i] # DictAt(singleton_bean_instance_container, ClassName(t))

----------------------------------------------------------------------------
(* The assignments of one bootstrap *)

\* the assignments the history records for the i-th annotation of c
AssignmentsOf(c, i) ==
    {s \in EventsOf("setattr") :
        trace[s].on = c /\ trace[s].what = Annotations(c)[i].name}

\* inject_dependencies_for_app_entities has returned without raising
InjectionPhaseOver ==
    /\ pc \notin {"register_app_entities", "init_ioc_container", "inject_dependencies"}
    /\ FailedPhase \notin 1..4

\* event k belongs to what run() does before the injection phase is over
BeforeInjectionEnds(k) ==
    \/ trace[k].ev \in {"inject", "setattr", "bind", "factory"}
    \/ trace[k].ev = "construct" /\ trace[k].obj.cls \notin ControllerClasses

(* C28: during one bootstrap every class-typed field of a registered          *)
(* component or controller class is assigned at most once, and exactly once   *)
(* when the injection phase is over; every such assignment is made in the     *)
(* injection phase, before any lifecycle hook, controller instantiation,      *)
(* mounting, server start or lookup, and once the injection phase is over no  *)
(* step changes an assigned field.                                            *)
C28_AssignedOnceInTheInjectionPhase ==
    /\ [](\A c \in InjectionTargets : \A i \in 1..Len(Annotations(c)) :
            /\ Cardinality(AssignmentsOf(c, i)) <= 1
            /\ \A s \in AssignmentsOf(c, i) : \A k \in 1..(s - 1) : BeforeInjectionEnds(k)
            /\ (InjectionPhaseOver /\ Annotations(c)[i].kind = AClass)
                  => Cardinality(AssignmentsOf(c, i)) = 1)
    /\ [][pc \notin {"init_ioc_container", "inject_dependencies"}
              => class_attrs' = class_attrs]_vars

C28_Witness ==
    /\ pc = "serving"
    /\ last_lookup.n > 0
    /\ \E k \in 1..Len(trace) : trace[k].ev = "include_router"
    /\ \E c \in InjectionTargets : \E i \in 1..Len(Annotations(c)) :
          Cardinality(AssignmentsOf(c, i)) = 1

----------------------------------------------------------------------------
(* What the injector assigns and what it builds *)

\* the event with which the injection of the consumer of assignment s began
InjectStart(s) ==
    CHOOSE j \in EventsOf("inject") :
        /\ j < s /\ trace[j].on = trace[s].on
        /\ \A m \in EventsOf("inject") : (m < s /\ trace[m].on = trace[s].on) => m <= j

InPropertiesMap(o) ==
    \E i \in 1..Len(singleton_properties_instance_container) :
        singleton_properties_instance_container[i].v = o

\* o was built, by a constructor call or by the properties loader, before event j
BuiltBefore(o, j) ==
    \/ InPropertiesMap(o)
    \/ \E k \in 1..(j - 1) : trace[k].ev \in {"construct", "factory"} /\ trace[k].obj = o

\* assignment s took its value from one of the three maps, where it was
\* before the injection of the consumer began
TakenFromAMap(s) ==
    /\ InSingletonMap(trace[s].obj) \/ InBeanMap(trace[s].obj) \/ InPropertiesMap(trace[s].obj)
    /\ BuiltBefore(trace[s].obj, InjectStart(s))

\* assignment s took a new instance of a registered Prototype component, which
\* the component lookup built for it
FreshPrototype(s) ==
    /\ s > 1
    /\ trace[s - 1].ev = "construct"
    /\ trace[s - 1].obj = trace[s].obj
    /\ InjectStart(s) < s - 1
    /\ trace[s].obj.cls \in ComponentClasses
    /\ DictHas(component_cls_container, ClassName(trace[s].obj.cls))
    /\ ScopeOf(trace[s].obj.cls) = "Prototype"
    /\ ~InSingletonMap(trace[s].obj)
    /\ ~InBeanMap(trace[s].obj)

\* the events a step has added to the history
AddedEvents == (Len(trace) + 1)..Len(trace')

(* C29 as stated: every assigned value was in one of the three maps before   *)
(* the injection of its consumer began, and between the start of a           *)
(* consumer's injection and one of its assignments nothing is constructed.   *)
C29_InjectorNeverConstructs ==
    \A s \in EventsOf("setattr") :
        /\ TakenFromAMap(s)
        /\ \A k \in (InjectStart(s) + 1)..(s - 1) : trace[k].ev # "construct"

(* C29, amended: every value the injector assigns was in the singleton map,  *)
(* the bean map or the properties map before the injection of its consumer   *)
(* began, or is a new instance of a registered Prototype-scoped component    *)
(* that the component lookup constructed for this field; the injection       *)
(* phase constructs nothing else.                                            *)
C29_OnlyPrototypesAreConstructed ==
    /\ [](\A s \in EventsOf("setattr") : TakenFromAMap(s) \/ FreshPrototype(s))
    /\ [][pc = "inject_dependencies" =>
             \A k \in AddedEvents :
                 trace'[k].ev = "construct" =>
                     /\ k + 1 \in AddedEvents
                     /\ trace'[k + 1].ev = "setattr"
                     /\ trace'[k + 1].obj = trace'[k].obj
                     /\ ScopeOf(trace'[k].obj.cls) = "Prototype"]_vars

C29_Witness ==
    /\ \E s \in EventsOf("setattr") : FreshPrototype(s) /\ trace[s].on \in InjectionTargets
    /\ \E s \in EventsOf("setattr") : TakenFromAMap(s) /\ InBeanMap(trace[s].obj)

----------------------------------------------------------------------------
(* Two singletons that declare each other *)

\* A (b: B) and B (a: A) are both registered and both Singleton-scoped
CycleRegistered ==
    /\ ClassRegistered("Component", "A")
    /\ ClassRegistered("Component", "B")
    /\ ScopeOf("A") = "Singleton"
    /\ ScopeOf("B") = "Singleton"

(* C30: when the Singleton components A, with a field of type B, and B,      *)
(* with a field of type A, are registered, no field of the two is ever       *)
(* reported unresolved, the bootstrap fails in no phase after the            *)
(* properties have been loaded when the two are all that is registered,      *)
(* and once the injection phase is over A's field holds the singleton        *)
(* instance of B and B's field holds the singleton instance of A.            *)
C30_FieldCycleResolves ==
    CycleRegistered =>
        /\ IsDependencyResolutionError(err) => err.args \notin {<<"b", "B">>, <<"a", "A">>}
        /\ (RegistrySize(Ctx) = 2 /\ Failed(Ctx)) => FailedPhase \in {1, 2}
        /\ InjectionPhaseOver =>
              /\ class_attrs["A"][1].cls = "B"
              /\ class_attrs["A"][1] = DictAt(singleton_component_instance_container, "B")
              /\ class_attrs["B"][1].cls = "A"
              /\ class_attrs["B"][1] = DictAt(singleton_component_instance_container, "A")

C30_Witness ==
    /\ CycleRegistered
    /\ pc = "done"
    /\ ~Failed(Ctx)
    /\ class_attrs["A"][1] = DictAt(singleton_component_instance_container, "B")
    /\ class_attrs["B"][1] = DictAt(singleton_component_instance_container, "A")
    /\ \E k \in 1..Len(trace) : trace[k].ev = "hook" /\ trace[k].what = "post_destroy"

----------------------------------------------------------------------------
(* The fields of a bean collection *)

\* the factory calls and argument bindings the history records for collection c
FactoryEventsOf(c) ==
    {k \in EventsOf("factory") : trace[k].on = c}
        \cup {k \in EventsOf("bind") :
                \E i \in 1..Len(Factories(c)) : Factories(c)[i].func = trace[k].on}

\* the bootstrap failed on a field of c
FailedOnFieldOf(c) ==
    /\ IsDependencyResolutionError(err) \/ IsPropertiesNotLoaded(err)
    /\ \E j \in EventsOf("inject") :
          /\ trace[j].on = c
          /\ \A m \in EventsOf("inject") : m <= j

(* C31: when a factory method of a bean collection is invoked, the injector  *)
(* has already been run on that collection and every class-typed field the   *)
(* collection declares has been assigned; when the bootstrap fails on a      *)
(* field of a collection, no factory of that collection has been invoked.    *)
C31_CollectionInjectedBeforeItsFactories ==
    \A c \in BeanCollectionClasses :
        /\ \A f \in EventsOf("factory") :
              trace[f].on = c =>
                  /\ \E j \in EventsOf("inject") : j < f /\ trace[j].on = c
                  /\ \A i \in 1..Len(Annotations(c)) :
                        Annotations(c)[i].kind = AClass => AssignedBefore(c, i, f)
        /\ FailedOnFieldOf(c) => FactoryEventsOf(c) = {}

C31_Witness ==
    \E c \in BeanCollectionClasses : \E f \in EventsOf("factory") :
        /\ trace[f].on = c
        /\ \E i \in 1..Len(Annotations(c)) :
              Annotations(c)[i].kind = AClass /\ AssignedBefore(c, i, f)

----------------------------------------------------------------------------
(* Prototype instances and the lifecycle hooks *)

\* the instances of Prototype-scoped component classes the history has built
PrototypeInstances ==
    {trace[k].obj : k \in {m \in EventsOf("construct") :
                              /\ trace[m].obj.cls \in ComponentClasses
                              /\ ScopeOf(trace[m].obj.cls) = "Prototype"}}

(* C32: the container invokes a lifecycle hook, of the init triple or of the *)
(* destroy triple, only on an instance the singleton map holds, whose class  *)
(* is Singleton-scoped; no instance of a Prototype-scoped component, built   *)
(* by a lookup or for a field during injection, ever receives a hook.        *)
C32_NoHookOnPrototypeInstances ==
    \A k \in EventsOf("hook") :
        /\ InSingletonMap(trace[k].obj)
        /\ ScopeOf(trace[k].obj.cls) = "Singleton"
        /\ trace[k].obj \notin PrototypeInstances

C32_Witness ==
    /\ pc = "done"
    /\ \E k \in EventsOf("hook") : trace[k].what \in SeqToSet(InitHooks)
    /\ \E k \in EventsOf("hook") : trace[k].what \in SeqToSet(DestroyHooks)
    /\ last_lookup.out \in PrototypeInstances
    /\ \E s \in EventsOf("setattr") :
          trace[s].obj \in PrototypeInstances /\ trace[s].obj # last_lookup.out

----------------------------------------------------------------------------
(* The entries of the bean map *)

(* C33: every entry of the bean map holds an object whose class name is the  *)
(* entry's name, and the history holds the factory call that built the       *)
(* object, by a factory whose declared return type has that name.            *)
C33_BeanMapEntriesAreValid ==
    \A i \in 1..Len(singleton_bean_instance_container) :
        LET bean_name == singleton_bean_instance_container[i].k
            bean == singleton_bean_instance_container[i].v
        IN  /\ ClassName(bean.cls) = bean_name
            /\ \E f \in EventsOf("factory") :
                  /\ trace[f].obj = bean
                  /\ BeanNameAt(f) = bean_name

C33_Witness ==
    /\ Len(singleton_bean_instance_container) >= 2
    /\ \E f \in EventsOf("factory") : Mismatched(f)

----------------------------------------------------------------------------
(* What the lookups leave alone *)

\* the class registries and the three instance maps
RegistriesAndMaps ==
    <<component_cls_container, controller_cls_container,
      bean_collection_cls_container, properties_cls_container,
      singleton_component_instance_container, singleton_bean_instance_container,
      singleton_properties_instance_container>>

(* C34: once the bootstrap has completed, a call of get_component, get_bean, *)
(* get_properties, get_singleton_component_instances,                        *)
(* get_singleton_bean_instances or get_controller_instances leaves the four  *)
(* class registries, the singleton map, the bean map and the properties map  *)
(* as they were, whatever calls came before it.                              *)
C34_LookupsLeaveTheMapsAlone ==
    [][(pc = "serving" /\ last_lookup'.n = last_lookup.n + 1)
          => RegistriesAndMaps' = RegistriesAndMaps]_vars

C34_Witness ==
    /\ pc = "serving"
    /\ last_lookup.n = MaxLookups
    /\ last_lookup.op = "get_controller_instances"
    /\ Len(last_lookup.out.items) > 0
    /\ Len(singleton_component_instance_container) > 0

----------------------------------------------------------------------------
(* The parser a loader applies *)

\* the parser the lookup table holds for an extension
LoaderFuncOf(ext) ==
    extension_loader_lookup[CHOOSE i \in 1..Len(extension_loader_lookup) :
                                extension_loader_lookup[i].extension = ext].loader_func

\* C35: when a loader has read its document, a file with a supported
\* extension was parsed by the parser of that extension, applied to the whole
\* content of the file, and a file with any other extension gave the
\* unsupported-extension error and no document.
C35_ParserGetsTheWholeFile ==
    loaded_dict # NotLoaded =>
        IF loader_file.ext \in SupportedExtensions
        THEN /\ loaded_dict.exc = NoError
             /\ loaded_dict.loader_func = LoaderFuncOf(loader_file.ext)
             /\ loaded_dict.file_content = loader_file.entries
        ELSE /\ loaded_dict.exc = Raise("ValueError", "Unsupported file extension",
                                        <<loader_file.ext>>)
             /\ loaded_dict.loader_func = ""

----------------------------------------------------------------------------
(* The class of what get_component returns *)

(* C36: whenever get_component(C) has returned an instance, the instance is  *)
(* of class C, whatever was registered and looked up before, classes that    *)
(* derive the same name as C included.                                       *)
C36_LookupReturnsAnInstanceOfTheClass ==
    (last_lookup.op = "get_component" /\ last_lookup.out # None)
        => last_lookup.out.cls = last_lookup.cls

----------------------------------------------------------------------------
(* The reach of set_scope *)

\* the component classes whose get_scope() a step changes
ScopeChanged == {c \in ComponentClasses : ScopeOf(c)' # ScopeOf(c)}

(* C37: a call of set_scope on a component class changes the scope of that   *)
(* class only: no step changes what get_scope returns for more than one      *)
(* component class.                                                          *)
C37_SetScopeChangesOneClass ==
    [][Cardinality(ScopeChanged) <= 1]_vars

----------------------------------------------------------------------------
(* The engine after the table-creation step *)

(* C38: when _create_all_tables has returned, PySpringModel holds an engine, *)
(* with or without tables in the metadata, and the constructor of a          *)
(* repository component that runs afterwards does not raise the              *)
(* engine-not-set error.                                                     *)
C38_EngineSetAfterTableCreation ==
    /\ last_access.op \in {"_create_all_tables", "RepositoryBase.__init__"}
          => py_spring_model._engine # None
    /\ last_access.op = "RepositoryBase.__init__"
          => ~IsEngineNotConfigured(last_access.exc)

----------------------------------------------------------------------------
(* C39 *)

\* the wrapper has left, by a return or by an exception
WrapperLeft == transaction.pc = "done"

\* the wrapped function was called, and on this session
FuncSession == transaction.kwargs_session

\* C39: when a call of a Transactional-wrapped function is over, the session
\* the function worked on, created by the wrapper or supplied by the caller,
\* was committed exactly if the function returned, was rolled back with the
\* function's own exception leaving the wrapper if it raised, and was closed
\* in either case.
C39_SessionCommittedRolledBackClosed ==
    (WrapperLeft /\ FuncSession # "none") =>
        /\ (FuncSession \in transaction.committed) <=> (transaction.raises = "none")
        /\ transaction.raises # "none" =>
               /\ FuncSession \in transaction.rolled_back
               /\ transaction.error = transaction.raises
        /\ FuncSession \in transaction.closed

====
